---- MODULE Spec2Model ----
(***************************************************************************)
(* Model of the API inventory engine of codetools.inventory:               *)
(*   CliInterface.run            (codetools/inventory/py_api_inventory.py) *)
(*   InventoryService, ModuleParser, NodeExtractor                         *)
(*                                          (codetools/inventory/core.py)  *)
(*   AstUtils                            (codetools/inventory/ast_ops.py)  *)
(* Strings are sequences of one-character strings, so that str.lstrip,     *)
(* str.replace and the ordering of str are computed as Python computes     *)
(* them.  A pathlib.Path under the root is the sequence of its parts.      *)
(***************************************************************************)
EXTENDS Integers, Sequences, FiniteSets, TLC

VARIABLES
    caller,          \* "cli": CliInterface.run; "api": InventoryService used directly
    cli_args,        \* what parse_args does with the command line
    root_kind,       \* what args.root / root_path names: "dir", "file", "missing"
    cfg_load,        \* ConfigurationManager.load_config: "ok" or "raises"
    config,          \* the effective configuration (app_config)
    tree,            \* the *.py files on disk under the root (set of Paths)
    outcome,         \* per file: what reading and parsing it does in the worker
    pc,              \* position of the run
    scanned,         \* TRUE once _collect_files has enumerated the root
    files,           \* all_files: the sorted list _collect_files returns
    packages,        \* the package records with their module lists
    stats,           \* InventoryStats
    futures,         \* one future per module skeleton, in submission order
    broken,          \* the executor's _broken: TRUE once the pool lost a worker
    manager,         \* position of the executor's manager thread
    iter_count,      \* futures registered when that thread began to iterate
                     \* over pending_work_items (the iterator's size check)
    collected,       \* indices of the futures as_completed has yielded
    parsed_results,  \* qname -> result of the collected futures
    pkg_i,           \* merge loop: index of the package being merged
    skel_j,          \* merge loop: index of the next skeleton of that package
    processed_mods,  \* merge loop: records kept so far for that package
    report,          \* the InventoryReport returned, or NoReport
    written,         \* TRUE once write_yaml has emitted the report
    exit_code,       \* the process exit status, or NoExit
    call,            \* the function applied on its own, "none" during a run
    call_args,       \* the arguments of that call
    call_ret         \* what the call returned, once it has returned

vars == <<caller, cli_args, root_kind, cfg_load, config, tree, outcome, pc, scanned,
          files, packages, stats, futures, broken, manager, iter_count, collected,
          parsed_results, pkg_i, skel_j, processed_mods, report, written,
          exit_code, call, call_args, call_ret>>

-----------------------------------------------------------------------------
(* Bounds of the model *)

\* at most this many *.py files exist under the root
MaxFiles == 3

\* at most this many of them fail in their parse task
MaxFailures == 3

\* a body extract is applied to has at most this many statements
MaxBody == 2

\* get_decorator_kind is applied to at most this many decorators
MaxDecorators == 3

\* get_visibility is applied to identifiers of at most this many characters
MaxNameLen == 6

\* _sig is applied to parameter lists of at most this many parameters
MaxParams == 3

-----------------------------------------------------------------------------
(* Strings *)

\* the characters of identifiers, in the order of their code points
Digits == <<"0", "1", "2", "3", "4", "5", "6", "7", "8", "9">>
UpperLetters ==
    <<"A", "B", "C", "D", "E", "F", "G", "H", "I", "J", "K", "L", "M",
      "N", "O", "P", "Q", "R", "S", "T", "U", "V", "W", "X", "Y", "Z">>
LowerLetters ==
    <<"a", "b", "c", "d", "e", "f", "g", "h", "i", "j", "k", "l", "m",
      "n", "o", "p", "q", "r", "s", "t", "u", "v", "w", "x", "y", "z">>

\* index of c in the sequence of characters cs
IndexIn(cs, c) == CHOOSE i \in 1..Len(cs) : cs[i] = c

\* code point of a character
Ord(c) ==
    CASE c = "-" -> 45
      [] c = "." -> 46
      [] c = "/" -> 47
      [] c = "_" -> 95
      [] c = "a" -> 97
      [] c = "b" -> 98
      [] c = "i" -> 105
      [] c = "n" -> 110
      [] c = "p" -> 112
      [] c = "q" -> 113
      [] c = "t" -> 116
      [] c = "y" -> 121
      [] c = "(" -> 40
      [] c = ")" -> 41
      [] c = " " -> 32
      [] c = "#" -> 35
      [] c = "\\u0142" -> 322
      [] \E i \in 1..Len(Digits) : Digits[i] = c -> 47 + IndexIn(Digits, c)
      [] \E i \in 1..Len(UpperLetters) : UpperLetters[i] = c
            -> 64 + IndexIn(UpperLetters, c)
      [] \E i \in 1..Len(LowerLetters) : LowerLetters[i] = c
            -> 96 + IndexIn(LowerLetters, c)

\* s < t for two str: lexicographic by code point, a proper prefix is smaller
StrLess(s, t) ==
    \E k \in 0..Len(s) :
        /\ k <= Len(t)
        /\ \A j \in 1..k : s[j] = t[j]
        /\ IF k = Len(s)
           THEN k < Len(t)
           ELSE k < Len(t) /\ Ord(s[k + 1]) < Ord(t[k + 1])

\* s.lstrip(ch)
RECURSIVE LStrip(_, _)
LStrip(s, ch) ==
    IF s # <<>> /\ Head(s) = ch THEN LStrip(Tail(s), ch) ELSE s

\* s.replace(old, new): every non-overlapping occurrence, left to right
RECURSIVE Replace(_, _, _)
Replace(s, old, new) ==
    IF Len(s) < Len(old) THEN s
    ELSE IF SubSeq(s, 1, Len(old)) = old
         THEN new \o Replace(SubSeq(s, Len(old) + 1, Len(s)), old, new)
         ELSE <<Head(s)>> \o Replace(Tail(s), old, new)

\* s.startswith(pre)
StartsWith(s, pre) == Len(s) >= Len(pre) /\ SubSeq(s, 1, Len(pre)) = pre

\* s.endswith(suf)
EndsWith(s, suf) ==
    Len(s) >= Len(suf) /\ SubSeq(s, Len(s) - Len(suf) + 1, Len(s)) = suf

\* s[:-n]
DropLast(s, n) == SubSeq(s, 1, Len(s) - n)

\* s.isupper(): some cased character, and no lowercase one
IsUpper(s) ==
    /\ \E k \in 1..Len(s) : \E i \in 1..Len(UpperLetters) : UpperLetters[i] = s[k]
    /\ ~\E k \in 1..Len(s) : \E i \in 1..Len(LowerLetters) : LowerLetters[i] = s[k]

\* re.match(r"^[A-Z0-9_]+$", s)
MatchesUpperPattern(s) ==
    /\ s # <<>>
    /\ \A k \in 1..Len(s) :
          \/ s[k] = "_"
          \/ \E i \in 1..Len(UpperLetters) : UpperLetters[i] = s[k]
          \/ \E i \in 1..Len(Digits) : Digits[i] = s[k]

\* str(n) for n >= 0
RECURSIVE IntStr(_)
IntStr(n) ==
    IF n < 10 THEN <<Digits[n + 1]>>
    ELSE IntStr(n \div 10) \o <<Digits[(n % 10) + 1]>>

\* sorted(strs) for a list of str: stable insertion
RECURSIVE InsertStr(_, _)
InsertStr(x, s) ==
    IF s = <<>> THEN <<x>>
    ELSE IF StrLess(x, Head(s)) THEN <<x>> \o s
    ELSE <<Head(s)>> \o InsertStr(x, Tail(s))

RECURSIVE SortedStrs(_)
SortedStrs(strs) ==
    IF strs = <<>> THEN <<>>
    ELSE InsertStr(strs[Len(strs)], SortedStrs(SubSeq(strs, 1, Len(strs) - 1)))

\* the string literals of the code
Slash == <<"/">>
Dot == <<".">>
DotPy == <<".", "p", "y">>
SlashInit == <<"/", "_", "_", "i", "n", "i", "t", "_", "_">>
InitPy == <<"_", "_", "i", "n", "i", "t", "_", "_", ".", "p", "y">>

-----------------------------------------------------------------------------
(* Paths: a Path under the root is the sequence of its parts *)

\* p.parent
Parent(p) == SubSeq(p, 1, Len(p) - 1)

\* p.name
Name(p) == p[Len(p)]

\* p < q for two Paths: pathlib compares the lists of parts
PathLess(p, q) ==
    \E k \in 0..Len(p) :
        /\ k <= Len(q)
        /\ \A j \in 1..k : p[j] = q[j]
        /\ IF k = Len(p)
           THEN k < Len(q)
           ELSE k < Len(q) /\ StrLess(p[k + 1], q[k + 1])

\* sorted(S) for a set of Paths
RECURSIVE SortedPaths(_)
SortedPaths(S) ==
    IF S = {} THEN <<>>
    ELSE LET m == CHOOSE p \in S : \A q \in S \ {p} : PathLess(p, q)
         IN  <<m>> \o SortedPaths(S \ {m})

\* PathHeaderAnnotator.normalize_relpath: file_path.relative_to(root).as_posix()
RECURSIVE AsPosix(_)
AsPosix(p) ==
    IF p = <<>> THEN Dot
    ELSE IF Len(p) = 1 THEN p[1]
    ELSE p[1] \o Slash \o AsPosix(Tail(p))

\* root / s for a relative POSIX string s: the Path of its parts
RECURSIVE SplitParts(_, _)
SplitParts(s, cur) ==
    IF s = <<>> THEN (IF cur = <<>> THEN <<>> ELSE <<cur>>)
    ELSE IF Head(s) = "/"
         THEN (IF cur = <<>> THEN <<>> ELSE <<cur>>) \o SplitParts(Tail(s), <<>>)
         ELSE SplitParts(Tail(s), Append(cur, Head(s)))

-----------------------------------------------------------------------------
(* The inputs of a run *)

Seg_p == <<"p">>
Seg_a == <<"a">>
Seg_pq == <<"p", "-", "q">>
APy == <<"a", ".", "p", "y">>
ABPy == <<"a", "-", "b", ".", "p", "y">>

\* the *.py files root.rglob("*.py") can find, as Paths relative to the root:
\*   __init__.py  p/__init__.py  p/a.py  p/a/__init__.py  p/a-b.py  p-q/a.py
FileUniverse ==
    { <<InitPy>>, <<Seg_p, InitPy>>, <<Seg_p, APy>>, <<Seg_p, Seg_a, InitPy>>,
      <<Seg_p, ABPy>>, <<Seg_pq, APy>> }

Trees == {T \in SUBSET FileUniverse : Cardinality(T) <= MaxFiles}

\* what reading and parsing a file does in its parse task: ast.parse returns
\* the module ("ok": the extraction follows, and may still raise), the file
\* does not parse or cannot be read or decoded ("parse_error": an error string
\* is returned), or the worker process is lost while it runs the task
\* ("worker_crash": the pool is broken, and its manager thread sets
\* BrokenProcessPool on the futures that are not done)
Outcomes == {"ok", "parse_error", "worker_crash"}

OutcomeMaps(T) ==
    {o \in [T -> Outcomes] : Cardinality({f \in T : o[f] # "ok"}) <= MaxFailures}

\* the exclude patterns of the model: none, or the directory pattern "p-q/"
NoExclude == <<>>
ExcludePQ == << <<"p", "-", "q", "/">> >>

\* the options every configuration of the model sets alike
BaseConfig ==
    [package_mode |-> "any_dir_with_py", leading_slash_in_paths |-> FALSE,
     constant_visibility |-> "no_underscore", exclude |-> NoExclude,
     include_constants |-> TRUE, include_functions |-> TRUE,
     include_enums |-> TRUE, public_only |-> TRUE,
     include_docstrings |-> FALSE, strip_docstrings |-> FALSE]

\* effective configurations; "bogus" is a value the option does not admit (it
\* comes from the configuration file or from the caller of the service: on
\* the command line parse_args rejects it)
Configs ==
    { BaseConfig,
      [BaseConfig EXCEPT !.package_mode = "require_init_py"],
      [BaseConfig EXCEPT !.leading_slash_in_paths = TRUE,
                         !.constant_visibility = "uppercase"],
      [BaseConfig EXCEPT !.package_mode = "require_init_py",
                         !.leading_slash_in_paths = TRUE,
                         !.constant_visibility = "uppercase"],
      [BaseConfig EXCEPT !.package_mode = "bogus"],
      [BaseConfig EXCEPT !.constant_visibility = "bogus"],
      [BaseConfig EXCEPT !.exclude = ExcludePQ],
      [BaseConfig EXCEPT !.include_docstrings = TRUE, !.strip_docstrings = TRUE] }

\* the lists of a module record that holds no declaration, with the three
\* optional keys present
NoContent ==
    [has_constants |-> TRUE, has_enums |-> TRUE, has_functions |-> TRUE,
     constants |-> <<>>, enums |-> <<>>, functions |-> <<>>, classes |-> <<>>,
     docstring |-> <<>>]

-----------------------------------------------------------------------------
(* Records *)

NoReport == [made |-> FALSE, stats |-> <<>>, packages |-> <<>>]
\* call_ret before the call has returned
NotReturned == [returned |-> FALSE]

\* exit_code before the process has exited
NoExit == 0 - 1

\* models.ModuleRecord (a dict); kind tells isinstance(res, dict) from a str
ModuleRecord(path, qname, content) ==
    [kind |-> "dict", text |-> "", path |-> path, qname |-> qname,
     content |-> content]

\* an error string
ErrorString(text) ==
    [kind |-> "str", text |-> text, path |-> <<>>, qname |-> <<>>,
     content |-> NoContent]

\* dict.get of a missing key
NoneResult ==
    [kind |-> "none", text |-> "", path |-> <<>>, qname |-> <<>>,
     content |-> NoContent]

\* models.PackageRecord
PackageRecord(path, qname) ==
    [path |-> path, qname |-> qname, is_package |-> TRUE, modules |-> <<>>]

\* InventoryService._init_stats
InitStats(nfiles, nexcluded, npkgs, nmods) ==
    [files_scanned |-> nfiles, files_excluded |-> nexcluded,
     files_parsed_ok |-> 0, files_parse_errors |-> 0,
     packages |-> npkgs, modules |-> nmods,
     classes |-> 0, methods |-> 0, constants |-> 0, enums |-> 0,
     functions |-> 0]

NoStats == InitStats(0, 0, 0, 0)

-----------------------------------------------------------------------------
(* Qualified names and the package tree *)

\* InventoryService._normalize_rel
NormalizeRel(p, cfg) ==
    IF cfg.leading_slash_in_paths THEN Slash \o AsPosix(p) ELSE AsPosix(p)

\* the qualified name of a module, from its relative path string
ModuleQname(rel) ==
    Replace(Replace(Replace(LStrip(rel, "/"), DotPy, <<>>), SlashInit, <<>>),
            Slash, Dot)

\* the qualified name of a package, from its relative path string
PackageQname(rel) == Replace(LStrip(rel, "/"), Slash, Dot)

\* every directory that holds a file, whatever the package mode
PackageDirsAnyMode(fs, cfg) == {Parent(fs[i]) : i \in 1..Len(fs)}

\* the package directories of a file list
PackageDirs(fs, cfg) ==
    IF cfg.package_mode = "require_init_py"
    THEN {Parent(fs[i]) : i \in {k \in 1..Len(fs) : Name(fs[k]) = InitPy}}
    ELSE {Parent(fs[i]) : i \in 1..Len(fs)}

\* first loop of _build_package_tree: one record per directory, in sorted order
PackageSkeletons(dirs, cfg) ==
    [i \in 1..Len(dirs) |->
        PackageRecord(NormalizeRel(dirs[i], cfg),
                      PackageQname(NormalizeRel(dirs[i], cfg)))]

\* second loop of _build_package_tree: each file is appended to the package
\* whose path is the path of its parent, when there is one
RECURSIVE AttachModules(_, _, _)
AttachModules(pkgs, fs, cfg) ==
    IF fs = <<>> THEN pkgs
    ELSE LET f == Head(fs)
             p_rel == NormalizeRel(Parent(f), cfg)
             m_rel == NormalizeRel(f, cfg)
             skeleton == ModuleRecord(m_rel, ModuleQname(m_rel), NoContent)
             next == [i \in 1..Len(pkgs) |->
                        IF pkgs[i].path = p_rel
                        THEN [pkgs[i] EXCEPT !.modules = Append(@, skeleton)]
                        ELSE pkgs[i]]
         IN  AttachModules(next, Tail(fs), cfg)

\* InventoryService._build_package_tree
BuildPackageTree(fs, cfg) ==
    AttachModules(PackageSkeletons(SortedPaths(PackageDirs(fs, cfg)), cfg), fs, cfg)

\* all_modules = [m for pkg in packages for m in pkg["modules"]]
RECURSIVE AllModules(_)
AllModules(pkgs) ==
    IF pkgs = <<>> THEN <<>> ELSE Head(pkgs).modules \o AllModules(Tail(pkgs))

-----------------------------------------------------------------------------
(* The syntax trees ast.parse returns: a node is a record of its fields *)

\* None where a node may stand
NoNode == [type |-> "None"]

\* None where a str may stand (no str is equal to it)
PyNone == <<"None">>

\* expressions: ast.Name, ast.Attribute, ast.Call, ast.Constant
NameNode(id) == [type |-> "Name", id |-> id]
AttributeNode(value, attr) == [type |-> "Attribute", value |-> value, attr |-> attr]
CallNode(func) == [type |-> "Call", func |-> func]
ConstantNode(v) == [type |-> "Constant", value |-> v]
\* ast.Constant whose value is a str
StrNode(s) == [type |-> "Constant", value |-> s, str |-> TRUE]

\* statements: ast.Assign has a list of targets, ast.AnnAssign has one target
AssignNode(targets, value) ==
    [type |-> "Assign", targets |-> targets, value |-> value]
AnnAssignNode(target, value) ==
    [type |-> "AnnAssign", target |-> target, value |-> value]
\* the body of a function of the model is `pass`, or what Documented gives it
FunctionDefNode(name, decorator_list, args, returns) ==
    [type |-> "FunctionDef", name |-> name, decorator_list |-> decorator_list,
     args |-> args, returns |-> returns, body |-> <<>>]
ClassDefNode(name, bases, body) ==
    [type |-> "ClassDef", name |-> name, bases |-> bases, body |-> body]
\* an expression statement, and a definition whose body begins with the
\* string literal doc
ExprNode(value) == [type |-> "Expr", value |-> value]
Documented(node, doc) == [node EXCEPT !.body = <<ExprNode(StrNode(doc))>> \o @]

\* ast.arguments of `def f():`
NoArguments ==
    [posonlyargs |-> <<>>, args |-> <<>>, defaults |-> <<>>, vararg |-> NoNode,
     kwonlyargs |-> <<>>, kw_defaults |-> <<>>, kwarg |-> NoNode]

\* ast.arg of the parameter self
SelfArg == [type |-> "arg", arg |-> <<"s", "e", "l", "f">>, annotation |-> NoNode]

\* getattr(node, attr, None)
GetAttr(node, attr) == IF attr \in DOMAIN node THEN node[attr] ELSE NoNode

-----------------------------------------------------------------------------
(* AstUtils *)

\* the attributes the class AstUtils has
AstUtilsAttributes ==
    {"get_visibility", "unparse_node", "get_docstring", "extract_literal_value",
     "is_enum", "get_decorator_kind"}

\* the length of the name is not looked at
VisibilityByAffixes(name) ==
    IF StartsWith(name, <<"_", "_">>) /\ EndsWith(name, <<"_", "_">>) THEN "dunder"
    ELSE IF StartsWith(name, <<"_">>) THEN "private"
    ELSE "public"

\* AstUtils.get_visibility
GetVisibility(name) ==
    IF StartsWith(name, <<"_", "_">>) /\ EndsWith(name, <<"_", "_">>) /\ Len(name) > 4
    THEN "dunder"
    ELSE IF StartsWith(name, <<"_">>) THEN "private"
    ELSE "public"

\* AstUtils.unparse_node: ast.unparse of the expressions of the model
RECURSIVE UnparseNode(_)
UnparseNode(node) ==
    CASE node.type = "None" -> PyNone
      [] node.type = "Name" -> node.id
      [] node.type = "Attribute" -> UnparseNode(node.value) \o Dot \o node.attr
      [] node.type = "Call" -> UnparseNode(node.func) \o <<"(", ")">>
      [] node.type = "Constant" ->
            IF "str" \in DOMAIN node THEN <<"'">> \o node.value \o <<"'">>
            ELSE IntStr(node.value)

\* the characters str.strip() removes that occur in the model
WhiteSpace == {" ", "\t", "\n"}

\* str.strip(): the white space at both ends is removed
RECURSIVE Strip(_)
Strip(s) ==
    IF s = <<>> THEN s
    ELSE IF Head(s) \in WhiteSpace THEN Strip(Tail(s))
    ELSE IF s[Len(s)] \in WhiteSpace THEN Strip(SubSeq(s, 1, Len(s) - 1))
    ELSE s

\* AstUtils.get_docstring of a body (ast.get_docstring with clean=False): the
\* value of the string literal the body begins with; <<>> stands for None,
\* which the callers treat as they treat the empty string
GetDocstring(body, strip) ==
    IF /\ body # <<>>
       /\ Head(body).type = "Expr"
       /\ Head(body).value.type = "Constant"
       /\ "str" \in DOMAIN Head(body).value
    THEN IF strip THEN Strip(Head(body).value.value) ELSE Head(body).value.value
    ELSE <<>>

\* AstUtils.extract_literal_value: v is <<value>>, or <<>> for None
ExtractLiteralValue(node) ==
    LET text == UnparseNode(node)
        value_repr == IF text = PyNone \/ text = <<>>
                      THEN <<"N", "o", "n", "e">> ELSE text
    IN  IF node.type = "None" THEN [v |-> <<>>, vr |-> value_repr]
        ELSE IF node.type = "Constant" THEN [v |-> <<node.value>>, vr |-> value_repr]
        ELSE [v |-> <<>>, vr |-> value_repr]

\* enum_names of AstUtils.is_enum
EnumNames ==
    { <<"E", "n", "u", "m">>, <<"I", "n", "t", "E", "n", "u", "m">>,
      <<"S", "t", "r", "E", "n", "u", "m">>, <<"F", "l", "a", "g">>,
      <<"I", "n", "t", "F", "l", "a", "g">> }

\* AstUtils.is_enum
IsEnum(node) ==
    \E k \in 1..Len(node.bases) :
        \/ node.bases[k].type = "Name" /\ node.bases[k].id \in EnumNames
        \/ node.bases[k].type = "Attribute" /\ node.bases[k].attr \in EnumNames

StaticmethodStr == <<"s", "t", "a", "t", "i", "c", "m", "e", "t", "h", "o", "d">>
ClassmethodStr == <<"c", "l", "a", "s", "s", "m", "e", "t", "h", "o", "d">>

\* the loop of get_decorator_kind over the decorators left to visit
RECURSIVE DecoratorLoop(_, _, _)
DecoratorLoop(decos, kind, names) ==
    IF decos = <<>> THEN [kind |-> kind, decorators |-> SortedStrs(names)]
    ELSE LET deco == Head(decos)
             deco_node == IF deco.type = "Call" THEN deco.func ELSE deco
             name == UnparseNode(deco_node)
         IN  IF name # PyNone /\ name # <<>>
             THEN DecoratorLoop(Tail(decos),
                                IF EndsWith(name, StaticmethodStr) THEN "static"
                                ELSE IF EndsWith(name, ClassmethodStr) THEN "class"
                                ELSE kind,
                                Append(names, name))
             ELSE DecoratorLoop(Tail(decos), kind, names)

\* the kind once a decorator has set it is kept: the first match decides
RECURSIVE FirstMatchKind(_)
FirstMatchKind(decorators) ==
    IF decorators = <<>> THEN [kind |-> "instance", decorators |-> <<>>]
    ELSE LET first == DecoratorLoop(<<Head(decorators)>>, "instance", <<>>)
         IN  [kind |-> IF first.kind # "instance" THEN first.kind
                       ELSE FirstMatchKind(Tail(decorators)).kind,
              decorators |-> DecoratorLoop(decorators, "instance", <<>>).decorators]

\* AstUtils.get_decorator_kind
GetDecoratorKind(decorators) == DecoratorLoop(decorators, "instance", <<>>)

-----------------------------------------------------------------------------
(* NodeExtractor *)

InitName == <<"_", "_", "i", "n", "i", "t", "_", "_">>

\* sorted(recs, key=lambda x: x[key]): stable insertion
RECURSIVE InsertBy(_, _, _)
InsertBy(key, m, s) ==
    IF s = <<>> THEN <<m>>
    ELSE IF StrLess(m[key], Head(s)[key]) THEN <<m>> \o s
    ELSE <<Head(s)>> \o InsertBy(key, m, Tail(s))

RECURSIVE SortedBy(_, _)
SortedBy(key, recs) ==
    IF recs = <<>> THEN <<>>
    ELSE InsertBy(key, recs[Len(recs)], SortedBy(key, SubSeq(recs, 1, Len(recs) - 1)))

\* NodeExtractor._vis
Vis(name, cfg) == ~cfg.public_only \/ GetVisibility(name) = "public"

\* NodeExtractor._const: the record in a list of one, no record (None is
\* returned), or the AttributeError of an attribute AstUtils does not have;
\* the value key of the record holds <<value>>, or <<>> once popped
Const(node, scope, target, cfg) ==
    LET name == target.id
        vis == GetVisibility(name)
        st == cfg.constant_visibility
        lit == ExtractLiteralValue(GetAttr(node, "value"))
        r == [name |-> name, visibility |-> vis, scope |-> scope,
              value |-> lit.v, value_repr |-> lit.vr]
        kept == [raised |-> FALSE, recs |-> <<r>>]
        none == [raised |-> FALSE, recs |-> <<>>]
        raises == [raised |-> TRUE, recs |-> <<>>]
    IN  IF st = "uppercase"
        THEN IF ~IsUpper(name) THEN none
             ELSE IF "re" \notin AstUtilsAttributes THEN raises
             ELSE IF MatchesUpperPattern(name) /\ vis = "public" THEN kept
             ELSE none
        ELSE IF st = "no_underscore" /\ vis # "public" THEN none
        ELSE kept

\* models.Param as the function add of _sig builds it
Param(a, kind, default) ==
    [name |-> a.arg, kind |-> kind, annotation |-> UnparseNode(a.annotation),
     default |-> default]

\* NodeExtractor._sig
Sig(args, returns) ==
    LET off == Len(args.args) - Len(args.defaults)
        posonly == [i \in 1..Len(args.posonlyargs) |->
                       Param(args.posonlyargs[i], "positional_only", PyNone)]
        plain == [i \in 1..Len(args.args) |->
                     Param(args.args[i], "positional_or_keyword",
                           IF i - 1 >= off
                           THEN UnparseNode(args.defaults[i - off]) ELSE PyNone)]
        vararg == IF args.vararg.type # "None"
                  THEN <<Param(args.vararg, "var_positional", PyNone)>> ELSE <<>>
        kwonly == [i \in 1..Len(args.kwonlyargs) |->
                      Param(args.kwonlyargs[i], "keyword_only",
                            IF args.kw_defaults[i].type # "None"
                            THEN UnparseNode(args.kw_defaults[i]) ELSE PyNone)]
        kwarg == IF args.kwarg.type # "None"
                 THEN <<Param(args.kwarg, "var_keyword", PyNone)>> ELSE <<>>
    IN  [params |-> posonly \o plain \o vararg \o kwonly \o kwarg,
         returns |-> UnparseNode(returns)]

\* NodeExtractor._func; the docstring key holds the text, or <<>> once popped
Func(node, parent_qname, cfg) ==
    [name |-> node.name,
     qname |-> parent_qname \o Dot \o node.name,
     visibility |-> GetVisibility(node.name),
     decorators |-> GetDecoratorKind(node.decorator_list).decorators,
     signature |-> Sig(node.args, node.returns),
     docstring |-> GetDocstring(node.body, cfg.strip_docstrings)]

\* the kind of __init__ is left as its decorators give it
MethodAsDecorated(node, cq, cfg) ==
    LET kd == GetDecoratorKind(node.decorator_list)
    IN  [name |-> node.name,
         qname |-> cq \o Dot \o node.name,
         visibility |-> GetVisibility(node.name),
         kind |-> kd.kind,
         decorators |-> kd.decorators,
         signature |-> Sig(node.args, node.returns),
         docstring |-> GetDocstring(node.body, cfg.strip_docstrings)]

\* NodeExtractor._method
Method(node, cq, cfg) ==
    LET kd == GetDecoratorKind(node.decorator_list)
    IN  [name |-> node.name,
         qname |-> cq \o Dot \o node.name,
         visibility |-> GetVisibility(node.name),
         kind |-> IF node.name = InitName THEN "instance" ELSE kd.kind,
         decorators |-> kd.decorators,
         signature |-> Sig(node.args, node.returns),
         docstring |-> GetDocstring(node.body, cfg.strip_docstrings)]

\* the loop of _enum over the statements of the enum body
RECURSIVE EnumMembers(_)
EnumMembers(body) ==
    IF body = <<>> THEN <<>>
    ELSE LET i == Head(body)
             t == GetAttr(i, "target")
         IN  (IF /\ i.type \in {"Assign", "AnnAssign"}
                 /\ t.type # "None"
                 /\ t.type = "Name"
                 /\ ~StartsWith(t.id, <<"_">>)
              THEN <<[name |-> t.id,
                      value_repr |-> ExtractLiteralValue(GetAttr(i, "value")).vr]>>
              ELSE <<>>)
             \o EnumMembers(Tail(body))

\* NodeExtractor._enum
Enum(node, qname, cfg) ==
    [name |-> node.name, qname |-> qname,
     docstring |-> GetDocstring(node.body, cfg.strip_docstrings),
     members |-> SortedBy("name", EnumMembers(node.body))]

\* the methods loop of _class
RECURSIVE ClassMethods(_, _, _)
ClassMethods(body, qname, cfg) ==
    IF body = <<>> THEN <<>>
    ELSE LET i == Head(body)
         IN  (IF /\ i.type \in {"FunctionDef", "AsyncFunctionDef"}
                 /\ (i.name = InitName \/ Vis(i.name, cfg))
              THEN <<Method(i, qname, cfg)>> ELSE <<>>)
             \o ClassMethods(Tail(body), qname, cfg)

\* the result of extract before any node is visited
NoExtract == [raised |-> FALSE, consts |-> <<>>, enums |-> <<>>, funcs |-> <<>>,
              clss |-> <<>>]

\* an exception leaves extract
ExtractRaised == [NoExtract EXCEPT !.raised = TRUE]

RECURSIVE ExtractLoop(_, _, _, _, _)
RECURSIVE Class(_, _, _)

\* the for loop of extract: acc holds the four lists so far
ExtractLoop(nodes, scope, cfg, parent_qname, acc) ==
    IF acc.raised THEN ExtractRaised
    ELSE IF nodes = <<>> THEN acc
    ELSE LET node == Head(nodes)
             t == GetAttr(node, "target")
             step ==
                IF cfg.include_constants /\ node.type \in {"Assign", "AnnAssign"}
                THEN IF t.type # "None" /\ t.type = "Name"
                     THEN LET c == Const(node, scope, t, cfg)
                          IN  [acc EXCEPT !.raised = c.raised,
                                          !.consts = @ \o c.recs]
                     ELSE acc
                ELSE IF /\ cfg.include_functions
                        /\ node.type \in {"FunctionDef", "AsyncFunctionDef"}
                        /\ scope = "module"
                THEN IF Vis(node.name, cfg)
                     THEN [acc EXCEPT !.funcs = Append(@, Func(node, parent_qname, cfg))]
                     ELSE acc
                ELSE IF node.type = "ClassDef"
                THEN IF Vis(node.name, cfg)
                     THEN LET fq == parent_qname \o Dot \o node.name
                          IN  IF cfg.include_enums /\ IsEnum(node)
                              THEN [acc EXCEPT !.enums = Append(@, Enum(node, fq, cfg))]
                              ELSE LET c == Class(node, fq, cfg)
                                   IN  [acc EXCEPT !.raised = c.raised,
                                                   !.clss = @ \o c.recs]
                     ELSE acc
                ELSE acc
         IN  ExtractLoop(Tail(nodes), scope, cfg, parent_qname, step)

\* NodeExtractor.extract
Extract(nodes, scope, cfg, parent_qname) ==
    LET done == ExtractLoop(nodes, scope, cfg, parent_qname, NoExtract)
    IN  IF done.raised THEN ExtractRaised
        ELSE [raised |-> FALSE,
              consts |-> SortedBy("name", done.consts),
              enums |-> SortedBy("qname", done.enums),
              funcs |-> SortedBy("qname", done.funcs),
              clss |-> SortedBy("qname", done.clss)]

\* NodeExtractor._class: the record in a list of one, or the exception of the
\* extraction of the class body; has_constants tells whether the constants
\* key is kept
Class(node, qname, cfg) ==
    LET sub == Extract(node.body, "class", cfg, qname)
    IN  IF sub.raised THEN [raised |-> TRUE, recs |-> <<>>]
        ELSE [raised |-> FALSE,
              recs |-> <<[name |-> node.name, qname |-> qname,
                          docstring |-> GetDocstring(node.body,
                                                     cfg.strip_docstrings),
                          has_constants |-> cfg.include_constants,
                          constants |-> sub.consts,
                          methods |-> SortedBy("name",
                                               ClassMethods(node.body, qname, cfg))]>>]

-----------------------------------------------------------------------------
(* The contents of the files, and the files _collect_files keeps *)

\* the body of the module ast.parse returns for a file that parses:
\*   __init__.py  is empty
\*   a.py         " A "
\*                CONST = 1
\*                def f(): "d"
\*   a-b.py       LIMIT: int = 2
\*                class C:
\*                    "d"
\*                    x: int = 1
\*                    def __init__(self): pass
\*                    def m(self): "d"
\*                class E(Enum):
\*                    " "
\*                    RED = 1
Source(f) ==
    IF Name(f) = InitPy THEN <<>>
    ELSE IF Name(f) = APy
    THEN << ExprNode(StrNode(<<" ", "A", " ">>)),
            AssignNode(<<NameNode(<<"C", "O", "N", "S", "T">>)>>, ConstantNode(1)),
            Documented(FunctionDefNode(<<"f">>, <<>>, NoArguments, NoNode), <<"d">>) >>
    ELSE << AnnAssignNode(NameNode(<<"L", "I", "M", "I", "T">>), ConstantNode(2)),
            Documented(
                ClassDefNode(<<"C">>, <<>>,
                    << AnnAssignNode(NameNode(<<"x">>), ConstantNode(1)),
                       FunctionDefNode(InitName, <<>>,
                           [NoArguments EXCEPT !.args = <<SelfArg>>],
                           NoNode),
                       Documented(
                           FunctionDefNode(<<"m">>, <<>>,
                               [NoArguments EXCEPT !.args = <<SelfArg>>],
                               NoNode),
                           <<"d">>) >>),
                <<"d">>),
            Documented(
                ClassDefNode(<<"E">>, <<NameNode(<<"E", "n", "u", "m">>)>>,
                    << AssignNode(<<NameNode(<<"R", "E", "D">>)>>, ConstantNode(1)) >>),
                <<" ">>) >>

\* PathSpec.match_file for the gitwildmatch patterns of the model: a pattern
\* "d/" matches every file below a directory named d
MatchFile(patterns, rel) ==
    \E i \in 1..Len(patterns) :
        /\ EndsWith(patterns[i], Slash)
        /\ \E k \in 1..(Len(SplitParts(rel, <<>>)) - 1) :
              SplitParts(rel, <<>>)[k] = DropLast(patterns[i], 1)

\* no pattern is applied: every file is kept
CollectEveryFile(T, cfg) == [all_py |-> SortedPaths(T), excluded |-> 0]

\* InventoryService._collect_files: the sorted files kept and the number of
\* files the exclude patterns matched
CollectFiles(T, cfg) ==
    [all_py |-> SortedPaths({f \in T : ~MatchFile(cfg.exclude, AsPosix(f))}),
     excluded |-> Cardinality({f \in T : MatchFile(cfg.exclude, AsPosix(f))})]

-----------------------------------------------------------------------------
(* The parse task and the merge *)

\* the record of parse_file after its optional keys are pruned: a popped key
\* leaves an empty list behind; the docstring key is set by parse_file
Pruned(ex, cfg) ==
    [has_constants |-> cfg.include_constants,
     has_enums |-> cfg.include_enums,
     has_functions |-> cfg.include_functions,
     constants |-> IF cfg.include_constants THEN ex.consts ELSE <<>>,
     enums |-> IF cfg.include_enums THEN ex.enums ELSE <<>>,
     functions |-> IF cfg.include_functions THEN ex.funcs ELSE <<>>,
     classes |-> ex.clss,
     docstring |-> <<>>]

\* ModuleParser.parse_file: the worker derives the relative path and the
\* qualified name again, then reads and parses the file
ParseFile(f, cfg, oc) ==
    LET rel == IF cfg.leading_slash_in_paths
               THEN Slash \o AsPosix(f) ELSE AsPosix(f)
        qname == Replace(Replace(Replace(LStrip(rel, "/"), DotPy, <<>>),
                                 SlashInit, <<>>), Slash, Dot)
        mod_doc == IF cfg.include_docstrings
                   THEN GetDocstring(Source(f), cfg.strip_docstrings) ELSE <<>>
        ex == Extract(Source(f), "module", cfg, qname)
    IN  IF oc = "ok" /\ ~ex.raised
        THEN ModuleRecord(rel, qname, [Pruned(ex, cfg) EXCEPT !.docstring = mod_doc])
        ELSE ErrorString("Parse Error")

\* the futures dict once executor.submit has returned for every skeleton of
\* all_modules: one task per skeleton, in the order of the skeletons
Submit(mods) ==
    [i \in 1..Len(mods) |->
        [file |-> SplitParts(LStrip(mods[i].path, "/"), <<>>),
         qname |-> mods[i].qname,
         state |-> "pending",
         result |-> NoneResult]]

\* body of the as_completed loop: what is stored for a completed future
CollectedResult(fut) ==
    IF fut.state = "raised" THEN ErrorString("Process Error") ELSE fut.result

\* parsed_results[qname] = result
Store(results, qname, res) ==
    [q \in DOMAIN results \cup {qname} |-> IF q = qname THEN res ELSE results[q]]

\* parsed_results.get(qname)
Get(results, qname) ==
    IF qname \in DOMAIN results THEN results[qname] ELSE NoneResult

\* the sum over the class records of the lengths of their list under key
RECURSIVE SumOver(_, _)
SumOver(clss, key) ==
    IF clss = <<>> THEN 0 ELSE Len(Head(clss)[key]) + SumOver(Tail(clss), key)

\* the constants of the classes are left out of the count
UpdateStatsModuleScope(st, mod) ==
    [st EXCEPT !.constants = @ + Len(mod.content.constants),
               !.enums = @ + Len(mod.content.enums),
               !.functions = @ + Len(mod.content.functions),
               !.classes = @ + Len(mod.content.classes),
               !.methods = @ + SumOver(mod.content.classes, "methods")]

\* InventoryService._update_stats
UpdateStats(st, mod) ==
    [st EXCEPT !.constants = @ + Len(mod.content.constants)
                               + SumOver(mod.content.classes, "constants"),
               !.enums = @ + Len(mod.content.enums),
               !.functions = @ + Len(mod.content.functions),
               !.classes = @ + Len(mod.content.classes),
               !.methods = @ + SumOver(mod.content.classes, "methods")]

\* a skeleton whose result is not a record is passed over without a count
MergeStepOkOnly(st, processed, res) ==
    IF res.kind = "dict"
    THEN [stats |-> UpdateStats([st EXCEPT !.files_parsed_ok = @ + 1], res),
          mods |-> Append(processed, res)]
    ELSE [stats |-> st, mods |-> processed]

\* body of the merge loop for one skeleton whose stored result is res
MergeStep(st, processed, res) ==
    IF res.kind = "dict"
    THEN [stats |-> UpdateStats([st EXCEPT !.files_parsed_ok = @ + 1], res),
          mods |-> Append(processed, res)]
    ELSE [stats |-> [st EXCEPT !.files_parse_errors = @ + 1],
          mods |-> processed]

\* sorted(processed_mods, key=lambda m: m["qname"]): stable
RECURSIVE InsertByQname(_, _)
InsertByQname(m, s) ==
    IF s = <<>> THEN <<m>>
    ELSE IF StrLess(m.qname, Head(s).qname) THEN <<m>> \o s
    ELSE <<Head(s)>> \o InsertByQname(m, Tail(s))

RECURSIVE SortAcc(_, _)
SortAcc(todo, done) ==
    IF todo = <<>> THEN done
    ELSE SortAcc(Tail(todo), InsertByQname(Head(todo), done))

\* the list left in the order of the skeletons
Unsorted(mods) == mods

SortedByQname(mods) == SortAcc(mods, <<>>)

\* InventoryService._build_report (the metadata is not part of the model)
BuildReport(st, pkgs) == [made |-> TRUE, stats |-> st, packages |-> pkgs]

-----------------------------------------------------------------------------
(* CliInterface.run around the service *)

\* the keyword arguments CliInterface.run passes to InventoryService(...)
CliCtorKwargs == {"app_config", "root_path", "logger"}

\* the keyword parameters InventoryService.__init__ declares
ServiceCtorParams == {"app_config", "root_path"}

\* the positional arguments CliInterface.run passes to service.write_yaml
CliWriteYamlArgs == <<"report", "output_path", "stdout">>

\* the positional parameters InventoryService.write_yaml declares
WriteYamlParams == <<"report", "path">>

\* what follows the return of run_inventory in its caller
AfterReturn(rep) ==
    IF caller = "cli"
    THEN /\ pc' = "exited"
         /\ IF Len(CliWriteYamlArgs) = Len(WriteYamlParams)
            THEN /\ written' = TRUE
                 /\ exit_code' = IF rep.stats.files_parse_errors > 0 THEN 2 ELSE 0
            ELSE /\ written' = FALSE
                 /\ exit_code' = 1
    ELSE /\ pc' = "returned"
         /\ UNCHANGED <<written, exit_code>>

-----------------------------------------------------------------------------
(* The state machine *)

Init ==
    /\ caller \in {"cli", "api"}
    /\ cli_args \in {"parsed", "usage_error", "help"}
    /\ caller = "api" => cli_args = "parsed"
    /\ root_kind \in {"dir", "file", "missing"}
    /\ cfg_load \in {"ok", "raises"}
    /\ caller = "api" => cfg_load = "ok"
    /\ config \in Configs
    /\ tree \in Trees
    /\ root_kind # "dir" => tree = {}
    /\ outcome \in OutcomeMaps(tree)
    /\ pc = "start"
    /\ scanned = FALSE
    /\ files = <<>>
    /\ packages = <<>>
    /\ stats = NoStats
    /\ futures = <<>>
    /\ collected = {}
    /\ parsed_results = <<>>
    /\ pkg_i = 0
    /\ skel_j = 0
    /\ processed_mods = <<>>
    /\ report = NoReport
    /\ written = FALSE
    /\ exit_code = NoExit
    /\ broken = FALSE
    /\ manager = "running"
    /\ iter_count = 0
    /\ call = "none"
    /\ call_args = <<>>
    /\ call_ret = NotReturned

\* CliInterface.run up to the construction of the service.  parse_args is
\* called before the try: on a command line it rejects (an option value
\* outside the choices, a value of -j that is no integer, -o together with
\* --stdout, no --root) argparse prints the usage and exits with 2, on --help
\* it prints the help and exits with 0.  After it, a failure of
\* _build_config, of Path(args.root).resolve(strict=True) or of the
\* constructor call is caught by `except Exception` and ends in sys.exit(1)
CliRun ==
    /\ caller = "cli"
    /\ pc = "start"
    /\ IF cli_args # "parsed"
       THEN /\ pc' = "exited"
            /\ exit_code' = IF cli_args = "help" THEN 0 ELSE 2
       ELSE IF \/ cfg_load = "raises"
               \/ root_kind = "missing"
               \/ ~(CliCtorKwargs \subseteq ServiceCtorParams)
            THEN /\ pc' = "exited"
                 /\ exit_code' = 1
            ELSE /\ pc' = "constructed"
                 /\ UNCHANGED exit_code
    /\ UNCHANGED <<call, call_args, call_ret>>
    /\ UNCHANGED <<broken, manager, iter_count, cli_args, caller, root_kind,
                   cfg_load, config, tree, outcome, scanned,
                   files, packages, stats, futures, collected, parsed_results,
                   pkg_i, skel_j, processed_mods, report, written>>

\* InventoryService.__init__, called with app_config and root_path
Construct ==
    /\ caller = "api"
    /\ pc = "start"
    /\ pc' = "constructed"
    /\ UNCHANGED <<call, call_args, call_ret>>
    /\ UNCHANGED <<broken, manager, iter_count, cli_args, caller, root_kind, cfg_load, config, tree, outcome, scanned,
                   files, packages, stats, futures, collected, parsed_results,
                   pkg_i, skel_j, processed_mods, report, written, exit_code>>

\* the files an exclude pattern matches are deleted from the root
CollectAndPrune ==
    /\ pc = "constructed"
    /\ scanned' = TRUE
    /\ files' = CollectFiles(IF root_kind = "dir" THEN tree ELSE {}, config).all_py
    /\ tree' = {files'[k] : k \in 1..Len(files')}
    /\ outcome' = [f \in tree' |-> outcome[f]]
    /\ packages' = BuildPackageTree(files', config)
    /\ stats' = InitStats(Len(files'), 0, Len(packages'), Len(AllModules(packages')))
    /\ pc' = "built"
    /\ UNCHANGED <<call, call_args, call_ret>>
    /\ UNCHANGED <<broken, manager, iter_count, cli_args, caller, root_kind, cfg_load, config, futures,
                   collected, parsed_results, pkg_i, skel_j, processed_mods,
                   report, written, exit_code>>

\* run_inventory up to _init_stats: the files are collected and the tree built
\* (a root that is not a directory yields no file)
CollectAndBuild ==
    /\ pc = "constructed"
    /\ scanned' = TRUE
    /\ files' = CollectFiles(IF root_kind = "dir" THEN tree ELSE {}, config).all_py
    /\ packages' = BuildPackageTree(files', config)
    /\ stats' = InitStats(Len(files'),
                          CollectFiles(IF root_kind = "dir" THEN tree ELSE {},
                                       config).excluded,
                          Len(packages'), Len(AllModules(packages')))
    /\ pc' = "built"
    /\ UNCHANGED <<call, call_args, call_ret>>
    /\ UNCHANGED <<broken, manager, iter_count, cli_args, caller, root_kind, cfg_load, config, tree, outcome, futures,
                   collected, parsed_results, pkg_i, skel_j, processed_mods,
                   report, written, exit_code>>

\* run_inventory: no module, the report is returned at once
ReturnEmpty ==
    /\ pc = "built"
    /\ AllModules(packages) = <<>>
    /\ report' = BuildReport(stats, packages)
    /\ AfterReturn(report')
    /\ UNCHANGED <<call, call_args, call_ret>>
    /\ UNCHANGED <<broken, manager, iter_count, cli_args, caller, root_kind, cfg_load, config, tree, outcome, scanned,
                   files, packages, stats, futures, collected, parsed_results,
                   pkg_i, skel_j, processed_mods>>

\* _process_modules, lines 176-187: executor.submit for the next skeleton of
\* all_modules, while the workers already run the tasks submitted before.  A
\* submit is two steps: it reads _broken, and on a pool that is not broken it
\* registers the future in pending_work_items; the executor's manager thread
\* sets _broken without the lock submit holds, so the pool can break between
\* the two.  After the last submit the as_completed loop begins.  On a broken
\* pool submit raises BrokenProcessPool.  The with block is left through
\* shutdown(wait=True), which joins the manager thread: after a submit that
\* raised, the exception then leaves _process_modules and run_inventory (the
\* CLI catches it and exits with 1); after the as_completed loop, the merge
\* begins
Dispatch ==
    /\ \/ /\ pc \in {"built", "submitting"}
          /\ Len(futures) < Len(AllModules(packages))
          /\ pc' = IF broken THEN "shutdown" ELSE "registering"
          /\ UNCHANGED <<futures, exit_code>>
       \/ /\ pc = "registering"
          /\ futures' = Append(futures,
                               Submit(AllModules(packages))[Len(futures) + 1])
          /\ pc' = IF Len(futures') = Len(AllModules(packages))
                   THEN "collecting" ELSE "submitting"
          /\ UNCHANGED exit_code
       \/ /\ pc = "shutdown"
          /\ manager = "ended"
          /\ IF Len(futures) < Len(AllModules(packages))
             THEN /\ pc' = IF caller = "cli" THEN "exited" ELSE "raised"
                  /\ exit_code' = IF caller = "cli" THEN 1 ELSE exit_code
             ELSE /\ pc' = "merging"
                  /\ UNCHANGED exit_code
          /\ UNCHANGED futures
    /\ UNCHANGED <<call, call_args, call_ret>>
    /\ UNCHANGED <<broken, manager, iter_count, cli_args, caller, root_kind,
                   cfg_load, config, tree, outcome, scanned,
                   files, packages, stats, collected, parsed_results, pkg_i,
                   skel_j, processed_mods, report, written>>

\* how the pending future i gets done, or the pool broken.  A worker runs
\* ModuleParser.parse_file for it and the manager thread sets the result; or
\* the worker is lost while it runs the task, and the manager thread enters
\* terminate_broken and sets _broken; or, in the loop of terminate_broken,
\* that thread sets BrokenProcessPool on the item it has fetched, which is
\* the first unfinished future in submission order
TaskRun(i) ==
    /\ pc \in {"submitting", "registering", "collecting", "shutdown"}
    /\ futures[i].state = "pending"
    /\ \/ /\ manager = "running"
          /\ outcome[futures[i].file] # "worker_crash"
          /\ futures' = [futures EXCEPT ![i] =
                            [@ EXCEPT !.state = "returned",
                                      !.result = ParseFile(futures[i].file, config,
                                                           outcome[futures[i].file])]]
          /\ UNCHANGED <<broken, manager>>
       \/ /\ manager = "running"
          /\ outcome[futures[i].file] = "worker_crash"
          /\ broken' = TRUE
          /\ manager' = "terminating"
          /\ UNCHANGED futures
       \/ /\ manager = "setting"
          /\ \A j \in 1..(i - 1) : futures[j].state # "pending"
          /\ futures' = [futures EXCEPT ![i].state = "raised"]
          /\ manager' = "iterating"
          /\ UNCHANGED broken
    /\ UNCHANGED <<call, call_args, call_ret>>
    /\ UNCHANGED <<iter_count, cli_args, caller, root_kind, cfg_load, config, tree,
                   outcome, pc, scanned,
                   files, packages, stats, collected, parsed_results, pkg_i,
                   skel_j, processed_mods, report, written, exit_code>>

\* the steps of terminate_broken that touch no future.  After _broken is set
\* the manager thread begins to iterate over pending_work_items; every
\* fetch of that iterator first compares the size of the dict with the size
\* it had when the iteration began.  A future that submit has registered
\* since makes the fetch raise RuntimeError, which ends the thread with the
\* remaining futures unfinished; otherwise the next unfinished future is
\* fetched, or, when none is left, the dict is cleared and the thread ends.
\* No thread is started again: a future registered after that stays pending
TerminateBroken ==
    /\ pc \in {"submitting", "registering", "collecting", "shutdown"}
    /\ \/ /\ manager = "terminating"
          /\ manager' = "iterating"
          /\ iter_count' = Len(futures)
       \/ /\ manager = "iterating"
          /\ manager' = IF /\ Len(futures) = iter_count
                           /\ \E i \in DOMAIN futures : futures[i].state = "pending"
                        THEN "setting" ELSE "ended"
          /\ UNCHANGED iter_count
    /\ UNCHANGED <<call, call_args, call_ret>>
    /\ UNCHANGED <<broken, cli_args, caller, root_kind, cfg_load, config, tree,
                   outcome, pc, scanned, files, packages, stats, futures,
                   collected, parsed_results, pkg_i, skel_j, processed_mods,
                   report, written, exit_code>>

\* the loop is left after the first completed future
CollectFirstOnly(i) ==
    /\ pc = "collecting"
    /\ i \notin collected
    /\ futures[i].state # "pending"
    /\ parsed_results' = Store(parsed_results, futures[i].qname,
                               CollectedResult(futures[i]))
    /\ collected' = collected \cup {i}
    /\ pc' = "merging"
    /\ pkg_i' = 1
    /\ skel_j' = 1
    /\ UNCHANGED <<call, call_args, call_ret>>
    /\ UNCHANGED <<broken, manager, iter_count, cli_args, caller, root_kind, cfg_load, config, tree, outcome, scanned,
                   files, packages, stats, futures, processed_mods, report,
                   written, exit_code>>

\* as_completed yields a completed future and the loop body stores its result;
\* after the last one the with block is left (on a broken pool through the
\* join of the manager thread) and the merge begins
Collect(i) ==
    /\ pc = "collecting"
    /\ i \notin collected
    /\ futures[i].state # "pending"
    /\ parsed_results' = Store(parsed_results, futures[i].qname,
                               CollectedResult(futures[i]))
    /\ collected' = collected \cup {i}
    /\ IF collected' = DOMAIN futures
       THEN /\ pc' = IF broken THEN "shutdown" ELSE "merging"
            /\ pkg_i' = 1
            /\ skel_j' = 1
       ELSE UNCHANGED <<pc, pkg_i, skel_j>>
    /\ UNCHANGED <<call, call_args, call_ret>>
    /\ UNCHANGED <<broken, manager, iter_count, cli_args, caller, root_kind, cfg_load, config, tree, outcome, scanned,
                   files, packages, stats, futures, processed_mods, report,
                   written, exit_code>>

\* merge loop body: one skeleton of the current package
MergeSkeleton ==
    /\ pc = "merging"
    /\ pkg_i <= Len(packages)
    /\ skel_j <= Len(packages[pkg_i].modules)
    /\ LET m == MergeStep(stats, processed_mods,
                          Get(parsed_results, packages[pkg_i].modules[skel_j].qname))
       IN  /\ stats' = m.stats
           /\ processed_mods' = m.mods
    /\ skel_j' = skel_j + 1
    /\ UNCHANGED <<call, call_args, call_ret>>
    /\ UNCHANGED <<broken, manager, iter_count, cli_args, caller, root_kind, cfg_load, config, tree, outcome, pc, scanned,
                   files, packages, futures, collected, parsed_results, pkg_i,
                   report, written, exit_code>>

\* end of the inner loop: pkg["modules"] = sorted(processed_mods, key=qname)
FinishPackage ==
    /\ pc = "merging"
    /\ pkg_i <= Len(packages)
    /\ skel_j > Len(packages[pkg_i].modules)
    /\ packages' = [packages EXCEPT ![pkg_i].modules = SortedByQname(processed_mods)]
    /\ processed_mods' = <<>>
    /\ pkg_i' = pkg_i + 1
    /\ skel_j' = 1
    /\ UNCHANGED <<call, call_args, call_ret>>
    /\ UNCHANGED <<broken, manager, iter_count, cli_args, caller, root_kind, cfg_load, config, tree, outcome, pc, scanned,
                   files, stats, futures, collected, parsed_results, report,
                   written, exit_code>>

\* run_inventory returns _build_report(...) after _process_modules
ReturnReport ==
    /\ pc = "merging"
    /\ pkg_i > Len(packages)
    /\ report' = BuildReport(stats, packages)
    /\ AfterReturn(report')
    /\ UNCHANGED <<call, call_args, call_ret>>
    /\ UNCHANGED <<broken, manager, iter_count, cli_args, caller, root_kind, cfg_load, config, tree, outcome, scanned,
                   files, packages, stats, futures, collected, parsed_results,
                   pkg_i, skel_j, processed_mods>>

Next ==
    \/ CliRun
    \/ Construct
    \/ CollectAndBuild
    \/ ReturnEmpty
    \/ Dispatch
    \/ \E i \in DOMAIN futures : TaskRun(i)
    \/ TerminateBroken
    \/ \E i \in DOMAIN futures : Collect(i)
    \/ MergeSkeleton
    \/ FinishPackage
    \/ ReturnReport

Spec == Init /\ [][Next]_vars

\* InventoryService used directly on a directory, under the two package modes
LiveInit ==
    /\ Init
    /\ caller = "api"
    /\ root_kind = "dir"
    /\ config \in {BaseConfig, [BaseConfig EXCEPT !.package_mode = "require_init_py"]}

LiveNext ==
    \/ Construct
    \/ CollectAndBuild
    \/ ReturnEmpty
    \/ Dispatch
    \/ \E i \in DOMAIN futures : TaskRun(i)
    \/ TerminateBroken
    \/ \E i \in DOMAIN futures : Collect(i)
    \/ MergeSkeleton
    \/ FinishPackage
    \/ ReturnReport

\* the steps of the thread that runs run_inventory, but for the one that
\* builds the tree; as_completed blocks only while no uncollected future is
\* done
Coordinator ==
    \/ Construct
    \/ ReturnEmpty
    \/ Dispatch
    \/ \E i \in DOMAIN futures : Collect(i)
    \/ MergeSkeleton
    \/ FinishPackage
    \/ ReturnReport

\* the pool goes on with the pending future i: its worker returns or is
\* lost, or the manager thread fails the future it has fetched
Completes(i) ==
    /\ pc \in {"submitting", "registering", "collecting", "shutdown"}
    /\ i \in DOMAIN futures
    /\ futures[i].state = "pending"
    /\ \/ /\ manager = "running"
          /\ \/ broken' = TRUE /\ futures' = futures
             \/ futures'[i].state = "returned"
       \/ /\ manager = "setting"
          /\ \A j \in 1..(i - 1) : futures[j].state # "pending"
          /\ futures' = [futures EXCEPT ![i].state = "raised"]
          /\ broken' = broken

\* the run with its scheduling: the coordinating thread (which goes on from
\* the construction of the service to the tree being built, and takes its
\* other steps), the workers and the manager thread of the pool keep running
LiveSpec ==
    /\ LiveInit
    /\ [][LiveNext]_vars
    /\ WF_pc(pc = "constructed" /\ pc' = "built")
    /\ WF_vars(Coordinator)
    /\ WF_vars(TerminateBroken)
    /\ \A i \in 1..(MaxFiles + 1) : WF_<<futures, broken>>(Completes(i))

-----------------------------------------------------------------------------
(* NodeExtractor.extract and the functions of AstUtils applied on their own *)

MAX_SIZE == <<"M", "A", "X", "_", "S", "I", "Z", "E">>
max_size == <<"m", "a", "x", "_", "s", "i", "z", "e">>
_MAX == <<"_", "M", "A", "X">>

\* class C:
\*     max_size: int = 10
\*     @staticmethod
\*     def __init__(): pass
\*     def _p(self): pass
\*     @classmethod
\*     def m(self): pass
ClassC ==
    ClassDefNode(<<"C">>, <<>>,
        << AnnAssignNode(NameNode(max_size), ConstantNode(10)),
           FunctionDefNode(InitName, <<NameNode(StaticmethodStr)>>, NoArguments, NoNode),
           FunctionDefNode(<<"_", "p">>, <<>>,
                           [NoArguments EXCEPT !.args = <<SelfArg>>], NoNode),
           FunctionDefNode(<<"m">>, <<NameNode(ClassmethodStr)>>,
                           [NoArguments EXCEPT !.args = <<SelfArg>>], NoNode) >>)

\* class D(Base):
\*     MAX_SIZE: int = 10
\*     @classmethod
\*     def __init__(self): pass
ClassD ==
    ClassDefNode(<<"D">>, <<NameNode(<<"B", "a", "s", "e">>)>>,
        << AnnAssignNode(NameNode(MAX_SIZE), ConstantNode(10)),
           FunctionDefNode(InitName, <<NameNode(ClassmethodStr)>>,
                           [NoArguments EXCEPT !.args = <<SelfArg>>], NoNode) >>)

\* class E(Enum):
\*     RED = 1
\*     GREEN = 2
EnumE ==
    ClassDefNode(<<"E">>, <<NameNode(<<"E", "n", "u", "m">>)>>,
        << AssignNode(<<NameNode(<<"R", "E", "D">>)>>, ConstantNode(1)),
           AssignNode(<<NameNode(<<"G", "R", "E", "E", "N">>)>>, ConstantNode(2)) >>)

\* class F(enum.IntFlag):
\*     B: int = 2
\*     A: int = 1
\*     _h: int = 3
EnumF ==
    ClassDefNode(<<"F">>,
        <<AttributeNode(NameNode(<<"e", "n", "u", "m">>),
                        <<"I", "n", "t", "F", "l", "a", "g">>)>>,
        << AnnAssignNode(NameNode(<<"B">>), ConstantNode(2)),
           AnnAssignNode(NameNode(<<"A">>), ConstantNode(1)),
           AnnAssignNode(NameNode(<<"_", "h">>), ConstantNode(3)) >>)

\* class _H(Enum): pass
Enum_H == ClassDefNode(<<"_", "H">>, <<NameNode(<<"E", "n", "u", "m">>)>>, <<>>)

\* the statements of the bodies extract is applied to: the plain and the
\* annotated assignment of 10 to MAX_SIZE, max_size and _MAX, the annotated
\* assignments `__d__: int = 1` and `x.y: int = 1`, `def f(): pass`,
\* `def _g(): pass`, and the five classes
Statements ==
    { AssignNode(<<NameNode(MAX_SIZE)>>, ConstantNode(10)),
      AnnAssignNode(NameNode(MAX_SIZE), ConstantNode(10)),
      AssignNode(<<NameNode(max_size)>>, ConstantNode(10)),
      AnnAssignNode(NameNode(max_size), ConstantNode(10)),
      AssignNode(<<NameNode(_MAX)>>, ConstantNode(10)),
      AnnAssignNode(NameNode(_MAX), ConstantNode(10)),
      AnnAssignNode(NameNode(<<"_", "_", "d", "_", "_">>), ConstantNode(1)),
      AnnAssignNode(AttributeNode(NameNode(<<"x">>), <<"y">>), ConstantNode(1)),
      FunctionDefNode(<<"f">>, <<>>, NoArguments, NoNode),
      FunctionDefNode(<<"_", "g">>, <<>>, NoArguments, NoNode),
      ClassC, ClassD, EnumE, EnumF, Enum_H }

Bodies == UNION {[1..n -> Statements] : n \in 0..MaxBody}

\* the configurations extract is applied under
ExtractConfigs ==
    { [BaseConfig EXCEPT !.include_constants = c, !.include_functions = f,
                         !.include_enums = e, !.public_only = p,
                         !.constant_visibility = v] :
        c \in BOOLEAN, f \in BOOLEAN, e \in BOOLEAN, p \in BOOLEAN,
        v \in {"no_underscore", "uppercase"} }

\* the decorators get_decorator_kind is applied to: @staticmethod,
\* @classmethod, @classmethod(), @x.staticmethod, @wraps, @wraps()
Decorators ==
    { NameNode(StaticmethodStr), NameNode(ClassmethodStr),
      CallNode(NameNode(ClassmethodStr)),
      AttributeNode(NameNode(<<"x">>), StaticmethodStr),
      NameNode(<<"w", "r", "a", "p", "s">>),
      CallNode(NameNode(<<"w", "r", "a", "p", "s">>)) }

DecoratorLists == UNION {[1..n -> Decorators] : n \in 0..MaxDecorators}

\* the identifiers get_visibility is applied to
Identifiers == UNION {[1..n -> {"_", "x"}] : n \in 0..MaxNameLen}

\* the parameter lists _sig is applied to, as declared in the source: the
\* k-th parameter is named a, b, c, ... by its position, is positional-only,
\* positional-or-keyword or keyword-only, and has the default k or none; the
\* kinds come in the order of the grammar, and a positional parameter without
\* a default does not follow a positional parameter with one
ParamKinds == <<"positional_only", "positional_or_keyword", "keyword_only">>

Declarations ==
    {d \in UNION {[1..n -> [kind : 1..3, has_default : BOOLEAN]] : n \in 0..MaxParams} :
        /\ \A k \in 1..(Len(d) - 1) : d[k].kind <= d[k + 1].kind
        /\ \A k \in 1..(Len(d) - 1) :
              (d[k].has_default /\ d[k + 1].kind <= 2) => d[k + 1].has_default}

\* the ast.arguments ast.parse builds for a declared parameter list: defaults
\* holds the defaults of the positional parameters of both kinds, kw_defaults
\* one entry per keyword-only parameter (None for no default)
ArgumentsOf(d) ==
    LET arg(k) == [type |-> "arg", arg |-> <<LowerLetters[k]>>, annotation |-> NoNode]
        at(K, def) == SelectSeq([k \in 1..Len(d) |-> k],
                                LAMBDA k : d[k].kind \in K /\ (def => d[k].has_default))
        of(ks, f(_)) == [j \in 1..Len(ks) |-> f(ks[j])]
    IN  [posonlyargs |-> of(at({1}, FALSE), arg),
         args |-> of(at({2}, FALSE), arg),
         defaults |-> of(at({1, 2}, TRUE), ConstantNode),
         vararg |-> NoNode,
         kwonlyargs |-> of(at({3}, FALSE), arg),
         kw_defaults |-> of(at({3}, FALSE),
                            LAMBDA k : IF d[k].has_default THEN ConstantNode(k)
                                       ELSE NoNode),
         kwarg |-> NoNode]

UnitsInit ==
    /\ caller = "api"
    /\ root_kind = "dir"
    /\ cfg_load = "ok"
    /\ config = BaseConfig
    /\ tree = {}
    /\ outcome = <<>>
    /\ pc = "call"
    /\ scanned = FALSE
    /\ files = <<>>
    /\ packages = <<>>
    /\ stats = NoStats
    /\ futures = <<>>
    /\ collected = {}
    /\ parsed_results = <<>>
    /\ pkg_i = 0
    /\ skel_j = 0
    /\ processed_mods = <<>>
    /\ report = NoReport
    /\ written = FALSE
    /\ exit_code = NoExit
    /\ broken = FALSE
    /\ manager = "running"
    /\ iter_count = 0
    /\ cli_args = "parsed"
    /\ \/ /\ call = "extract"
          /\ call_args \in [nodes : Bodies, scope : {"module"},
                            config : ExtractConfigs, parent_qname : {<<"m">>}]
       \/ /\ call = "get_decorator_kind"
          /\ call_args \in [decorators : DecoratorLists]
       \/ /\ call = "get_visibility"
          /\ call_args \in [name : Identifiers]
       \/ /\ call = "_sig"
          /\ call_args \in [declared : Declarations]
    /\ call_ret = NotReturned

\* NodeExtractor(config, parent_qname).extract(nodes, scope)
CallExtract ==
    /\ call = "extract"
    /\ ~call_ret.returned
    /\ call_ret' = [returned |-> TRUE,
                    value |-> Extract(call_args.nodes, call_args.scope,
                                      call_args.config, call_args.parent_qname)]
    /\ UNCHANGED <<call, call_args>>
    /\ UNCHANGED <<broken, manager, iter_count, cli_args, caller, root_kind, cfg_load, config, tree, outcome, pc, scanned,
                   files, packages, stats, futures, collected, parsed_results,
                   pkg_i, skel_j, processed_mods, report, written, exit_code>>

\* AstUtils.get_decorator_kind(decorators)
CallGetDecoratorKind ==
    /\ call = "get_decorator_kind"
    /\ ~call_ret.returned
    /\ call_ret' = [returned |-> TRUE,
                    value |-> GetDecoratorKind(call_args.decorators)]
    /\ UNCHANGED <<call, call_args>>
    /\ UNCHANGED <<broken, manager, iter_count, cli_args, caller, root_kind, cfg_load, config, tree, outcome, pc, scanned,
                   files, packages, stats, futures, collected, parsed_results,
                   pkg_i, skel_j, processed_mods, report, written, exit_code>>

\* AstUtils.get_visibility(name)
CallGetVisibility ==
    /\ call = "get_visibility"
    /\ ~call_ret.returned
    /\ call_ret' = [returned |-> TRUE, value |-> GetVisibility(call_args.name)]
    /\ UNCHANGED <<call, call_args>>
    /\ UNCHANGED <<broken, manager, iter_count, cli_args, caller, root_kind, cfg_load, config, tree, outcome, pc, scanned,
                   files, packages, stats, futures, collected, parsed_results,
                   pkg_i, skel_j, processed_mods, report, written, exit_code>>

\* NodeExtractor._sig(args, returns) of a function without return annotation
CallSig ==
    /\ call = "_sig"
    /\ ~call_ret.returned
    /\ call_ret' = [returned |-> TRUE,
                    value |-> Sig(ArgumentsOf(call_args.declared), NoNode)]
    /\ UNCHANGED <<call, call_args>>
    /\ UNCHANGED <<broken, manager, iter_count, cli_args, caller, root_kind, cfg_load, config, tree, outcome, pc, scanned,
                   files, packages, stats, futures, collected, parsed_results,
                   pkg_i, skel_j, processed_mods, report, written, exit_code>>

UnitsNext ==
    \/ CallExtract
    \/ CallGetDecoratorKind
    \/ CallGetVisibility
    \/ CallSig

SpecUnits == UnitsInit /\ [][UnitsNext]_vars

-----------------------------------------------------------------------------
(* A run whose futures are collected in submission order *)

\* the future of a task once its worker has run, on a pool that is broken or
\* not
Ran(fut, lost) ==
    IF lost \/ outcome[fut.file] = "worker_crash"
    THEN [fut EXCEPT !.state = "raised"]
    ELSE [fut EXCEPT !.state = "returned",
                     !.result = ParseFile(fut.file, config, outcome[fut.file])]

\* parsed_results after the tasks of futs[k..] have run and been collected in
\* this order
RECURSIVE CollectInOrder(_, _, _)
CollectInOrder(futs, k, results) ==
    IF k > Len(futs) THEN results
    ELSE LET lost == \E j \in 1..(k - 1) : outcome[futs[j].file] = "worker_crash"
         IN  CollectInOrder(futs, k + 1,
                            Store(results, futs[k].qname,
                                  CollectedResult(Ran(futs[k], lost))))

\* the inner merge loop over the skeletons mods[k..] of one package
RECURSIVE MergeModules(_, _, _, _, _)
MergeModules(mods, k, results, st, processed) ==
    IF k > Len(mods) THEN [stats |-> st, mods |-> SortedByQname(processed)]
    ELSE LET m == MergeStep(st, processed, Get(results, mods[k].qname))
         IN  MergeModules(mods, k + 1, results, m.stats, m.mods)

\* the outer merge loop over the packages pkgs[k..]
RECURSIVE MergePackages(_, _, _, _)
MergePackages(pkgs, k, results, st) ==
    IF k > Len(pkgs) THEN [stats |-> st, packages |-> pkgs]
    ELSE LET m == MergeModules(pkgs[k].modules, 1, results, st, <<>>)
         IN  MergePackages([pkgs EXCEPT ![k].modules = m.mods], k + 1, results,
                           m.stats)

\* the report of the run that collects its futures in submission order
InOrderReport ==
    LET pk == BuildPackageTree(files, config)
        mods == AllModules(pk)
        st == InitStats(Len(files), CollectFiles(tree, config).excluded,
                        Len(pk), Len(mods))
        merged == MergePackages(pk, 1, CollectInOrder(Submit(mods), 1, <<>>), st)
    IN  BuildReport(merged.stats, merged.packages)

-----------------------------------------------------------------------------
(* Vocabulary of the claims *)

\* the option values the configuration surface admits
InvalidConfig(cfg) ==
    \/ cfg.package_mode \notin {"any_dir_with_py", "require_init_py"}
    \/ cfg.constant_visibility \notin {"no_underscore", "uppercase"}

\* the skeleton tree as _build_package_tree returned it
SkeletonTree == BuildPackageTree(files, config)

\* index in futures of the skeleton the merge loop is at
CurrentFuture ==
    Len(AllModules(SubSeq(SkeletonTree, 1, pkg_i - 1))) + skel_j

\* the step is one execution of the body of the merge loop
MergingSkeleton ==
    /\ pc = "merging"
    /\ pkg_i <= Len(packages)
    /\ skel_j <= Len(packages[pkg_i].modules)
    /\ skel_j' = skel_j + 1

\* a sequence of records is in ascending order of qname
AscendingQnames(recs) ==
    \A k \in 1..(Len(recs) - 1) : ~StrLess(recs[k + 1].qname, recs[k].qname)

\* every module record of a package list
ModulesOf(pkgs) == {AllModules(pkgs)[k] : k \in 1..Len(AllModules(pkgs))}

-----------------------------------------------------------------------------
(* C1 *)

\* C1: for a fixed file set and configuration the tree and the stats of the
\* returned report are the same for every completion order of the parse
\* tasks: every run returns the report of the run that collects its futures
\* in submission order.
C1_CompletionOrderIndependent ==
    report.made => report = InOrderReport

-----------------------------------------------------------------------------
(* C2 *)

\* C2: merging a skeleton whose own parse task returned an error string
\* increments files_parse_errors by exactly one, counts nothing as parsed and
\* puts no record into the module list of its package.
C2_ErrorStringCountedOnce ==
    [][ (MergingSkeleton
         /\ futures[CurrentFuture].state = "returned"
         /\ futures[CurrentFuture].result.kind = "str")
        => /\ stats'.files_parse_errors = stats.files_parse_errors + 1
           /\ stats'.files_parsed_ok = stats.files_parsed_ok
           /\ processed_mods' = processed_mods ]_vars

-----------------------------------------------------------------------------
(* C3 *)

\* C3: a future that raised is merged like a typed parse error: merging its
\* skeleton increments files_parse_errors by exactly one, counts nothing as
\* parsed and puts no record into the module list of its package.
C3_RaisedFutureCountedOnce ==
    [][ (MergingSkeleton /\ futures[CurrentFuture].state = "raised")
        => /\ stats'.files_parse_errors = stats.files_parse_errors + 1
           /\ stats'.files_parsed_ok = stats.files_parsed_ok
           /\ processed_mods' = processed_mods ]_vars

-----------------------------------------------------------------------------
(* C4 *)

\* C4: CliInterface.run exits 0 after a run without parse errors and 2 after
\* a run with parse errors, the report written in both cases, and exits 1
\* only when the configuration or the setup failed before scanning (a command
\* line that asks for the help text starts no run).
C4_ExitSignals ==
    (caller = "cli" /\ pc = "exited" /\ cli_args # "help") =>
        /\ exit_code \in {0, 1, 2}
        /\ exit_code = 1 =>
              (cfg_load = "raises" \/ root_kind # "dir" \/ InvalidConfig(config))
        /\ exit_code = 0 =>
              (report.made /\ written /\ report.stats.files_parse_errors = 0)
        /\ exit_code = 2 =>
              (report.made /\ written /\ report.stats.files_parse_errors > 0)

-----------------------------------------------------------------------------
(* C5 *)

\* C5: with a root that is missing or not a directory, or with an invalid
\* option value in the effective configuration, no file is scanned, no parse
\* task is dispatched and no report is produced.
C5_SetupFailsBeforeScanning ==
    (root_kind # "dir" \/ InvalidConfig(config)) =>
        (~scanned /\ futures = <<>> /\ ~report.made)

-----------------------------------------------------------------------------
(* C6 *)

\* C6: during _process_modules the stats and the module lists of the packages
\* change only in steps of the merge, which are taken only once every
\* submitted task has completed and been collected; a step in which a task is
\* submitted or completes changes only futures that are not done, and nothing
\* else the coordinator reads.
C6_MergeIsSingleWriter ==
    [][ /\ (pc \in {"submitting", "registering", "collecting", "shutdown", "merging"}
            /\ (stats' # stats \/ packages' # packages
                \/ processed_mods' # processed_mods))
           => (/\ pc = "merging"
               /\ collected = DOMAIN futures
               /\ \A i \in DOMAIN futures : futures[i].state # "pending"
               /\ futures' = futures
               /\ parsed_results' = parsed_results)
        /\ (futures' # futures)
           => (/\ DOMAIN futures \subseteq DOMAIN futures'
               /\ \A j \in DOMAIN futures :
                     futures[j].state # "pending" => futures'[j] = futures[j]
               /\ UNCHANGED <<stats, packages, parsed_results, collected,
                              processed_mods, report>>) ]_vars

\* the merge has counted a module of a run with several tasks
C6_Witness ==
    /\ pc = "merging"
    /\ Len(futures) >= 2
    /\ stats.files_parsed_ok >= 1
    /\ stats.files_parse_errors >= 1

-----------------------------------------------------------------------------
(* C7 *)

\* C7: in the returned report the modules of every package are in ascending
\* order of qualified name.
C7_ModulesSortedByQname ==
    report.made =>
        \A i \in 1..Len(report.packages) :
            AscendingQnames(report.packages[i].modules)

\* a returned package whose modules are in another order than their paths
C7_Witness ==
    /\ report.made
    /\ \E i \in 1..Len(report.packages) :
          LET ms == report.packages[i].modules
          IN  \E k \in 1..(Len(ms) - 1) : StrLess(ms[k + 1].path, ms[k].path)

-----------------------------------------------------------------------------
(* C8 *)

\* C8: in the returned report the packages are in ascending order of
\* qualified name.
C8_PackagesSortedByQname ==
    report.made => AscendingQnames(report.packages)

-----------------------------------------------------------------------------
(* C9 *)

\* the files on disk no exclude pattern matches
EligibleFiles == {f \in tree : ~MatchFile(config.exclude, AsPosix(f))}

\* the package directories of the eligible files under the two policies
PackageDirectories ==
    IF config.package_mode = "require_init_py"
    THEN {Parent(f) : f \in {g \in EligibleFiles : Name(g) = InitPy}}
    ELSE {Parent(f) : f \in EligibleFiles}

\* the eligible files whose parent directory is a package directory
FilesInPackages == {f \in EligibleFiles : Parent(f) \in PackageDirectories}

\* C9: under any_dir_with_py and require_init_py, _build_package_tree makes
\* exactly one package per package directory and one skeleton per file whose
\* parent is a package directory; a file outside every package gets no
\* skeleton and no parse task, and is not counted as parsed or as failed.
C9_PackageTree ==
    config.package_mode \in {"any_dir_with_py", "require_init_py"} =>
        /\ pc = "built" =>
              /\ Len(packages) = Cardinality(PackageDirectories)
              /\ {packages[i].path : i \in 1..Len(packages)}
                    = {NormalizeRel(d, config) : d \in PackageDirectories}
              /\ \A i \in 1..Len(packages) :
                    LET ms == packages[i].modules
                        own == {f \in FilesInPackages :
                                   NormalizeRel(Parent(f), config) = packages[i].path}
                    IN  /\ Len(ms) = Cardinality(own)
                        /\ {ms[k].path : k \in 1..Len(ms)}
                              = {NormalizeRel(f, config) : f \in own}
        /\ \A i \in DOMAIN futures : futures[i].file \in FilesInPackages
        /\ Len(futures) <= Cardinality(FilesInPackages)
        /\ stats.files_parsed_ok + stats.files_parse_errors
              <= Cardinality(FilesInPackages)

\* require_init_py, a package with a module, and a failing file outside
\* every package, after the report is returned
C9_Witness ==
    /\ report.made
    /\ config.package_mode = "require_init_py"
    /\ \E i \in 1..Len(report.packages) : report.packages[i].modules # <<>>
    /\ \E f \in tree : f \notin FilesInPackages /\ outcome[f] = "parse_error"

-----------------------------------------------------------------------------
(* C10 *)

\* the qualified name the contract gives a relative path: leading slashes
\* stripped, the trailing .py removed, a trailing __init__ segment removed,
\* every / replaced by .
ContractQname(rel) ==
    LET s1 == LStrip(rel, "/")
        s2 == IF EndsWith(s1, DotPy) THEN DropLast(s1, Len(DotPy)) ELSE s1
        s3 == IF s2 = Tail(SlashInit) THEN <<>>
              ELSE IF EndsWith(s2, SlashInit) THEN DropLast(s2, Len(SlashInit))
              ELSE s2
    IN  Replace(s3, Slash, Dot)

\* C10: the qualified name of every module skeleton and of every record a
\* parse task returns is the contract's qualified name of its relative path.
C10_QnameOfPath ==
    /\ pc = "built" =>
          \A m \in ModulesOf(packages) : m.qname = ContractQname(m.path)
    /\ \A i \in DOMAIN futures :
          futures[i].result.kind = "dict" =>
              futures[i].result.qname = ContractQname(futures[i].result.path)

-----------------------------------------------------------------------------
(* C11 *)

\* C11: two distinct module skeletons built by _build_package_tree never have
\* the same qualified name, so once every future is collected the qname-keyed
\* result mapping holds one entry per submitted module.
C11_QnamesUnique ==
    /\ pc = "built" =>
          \A i, j \in 1..Len(AllModules(packages)) :
              i # j => AllModules(packages)[i].qname # AllModules(packages)[j].qname
    /\ pc = "merging" => Cardinality(DOMAIN parsed_results) = Len(futures)

-----------------------------------------------------------------------------
(* C12 *)

\* C12: for a root holding an empty p/__init__.py and p/a.py with `CONST = 1`
\* and `def f(): pass`, run with package_mode = require_init_py,
\* include_constants, include_functions and public_only (the directory pkg of
\* the contract is the directory p here), the report has exactly one package
\* p, that package has exactly one module p.a, and the module holds exactly
\* one constant CONST of value 1 and exactly one function p.a.f with an empty
\* parameter list and no return annotation.
C12_EndToEnd ==
    ( /\ report.made
      /\ tree = { <<Seg_p, InitPy>>, <<Seg_p, APy>> }
      /\ \A f \in tree : outcome[f] = "ok"
      /\ config = [BaseConfig EXCEPT !.package_mode = "require_init_py"] )
    => /\ Len(report.packages) = 1
       /\ report.packages[1].qname = Seg_p
       /\ Len(report.packages[1].modules) = 1
       /\ LET m == report.packages[1].modules[1]
          IN  /\ m.qname = <<"p", ".", "a">>
              /\ Len(m.content.constants) = 1
              /\ m.content.constants[1].name = <<"C", "O", "N", "S", "T">>
              /\ m.content.constants[1].value = <<1>>
              /\ Len(m.content.functions) = 1
              /\ m.content.functions[1].qname = <<"p", ".", "a", ".", "f">>
              /\ m.content.functions[1].signature.params = <<>>
              /\ m.content.functions[1].signature.returns = PyNone

-----------------------------------------------------------------------------
(* C13 *)

\* C13 as stated: when no eligible file is found under the root, run_inventory
\* dispatches no parse task and returns a report with no package, no module
\* and every stats counter equal to zero.
C13_AllCountersZero ==
    [][ (pc = "built" /\ EligibleFiles = {})
        => /\ report'.made
           /\ futures' = <<>>
           /\ report'.packages = <<>>
           /\ report'.stats = NoStats ]_vars

\* C13 amended: when no eligible file is found under the root, run_inventory
\* dispatches no parse task and returns a report with no package, no module
\* and every stats counter equal to zero except files_excluded, which is the
\* number of files the exclude patterns matched.
C13_EmptyRepository ==
    [][ (pc = "built" /\ EligibleFiles = {})
        => /\ report'.made
           /\ futures' = <<>>
           /\ report'.packages = <<>>
           /\ report'.stats =
                 [NoStats EXCEPT !.files_excluded =
                                    Cardinality(tree \ EligibleFiles)] ]_vars

\* a report is returned for a root whose only files are excluded
C13_Witness ==
    /\ report.made
    /\ EligibleFiles = {}
    /\ tree # {}
    /\ futures = <<>>

-----------------------------------------------------------------------------
(* Vocabulary of the claims about extract and AstUtils *)

\* the call of f has returned
Returned(f) == call = f /\ call_ret.returned

\* the name a statement assigns to when it is a plain or an annotated
\* assignment to a single bare identifier: <<name>>, or <<>> for another kind
\* of statement
AssignedName(node) ==
    IF node.type = "Assign" /\ Len(node.targets) = 1 /\ node.targets[1].type = "Name"
    THEN <<node.targets[1].id>>
    ELSE IF node.type = "AnnAssign" /\ node.target.type = "Name"
    THEN <<node.target.id>>
    ELSE <<>>

\* the visibility classes of the contract
ContractVisibility(n) ==
    IF /\ Len(n) > 4
       /\ n[1] = "_" /\ n[2] = "_" /\ n[Len(n) - 1] = "_" /\ n[Len(n)] = "_"
    THEN "dunder"
    ELSE IF Len(n) >= 1 /\ n[1] = "_" THEN "private"
    ELSE "public"

\* the name passes the constant-visibility policy st
PassesPolicy(name, st) ==
    IF st = "uppercase"
    THEN MatchesUpperPattern(name) /\ ContractVisibility(name) = "public"
    ELSE ContractVisibility(name) = "public"

\* the positions of the statements of a body that are constant candidates
\* passing the policy
AcceptedAt(nodes, st) ==
    {k \in 1..Len(nodes) :
        AssignedName(nodes[k]) # <<>> /\ PassesPolicy(AssignedName(nodes[k])[1], st)}

\* the names of a list of records
NamesOf(recs) == {recs[k].name : k \in 1..Len(recs)}

\* the records of a list whose qname is the one of the declaration node
RecordsOf(recs, node) ==
    {k \in 1..Len(recs) : recs[k].qname = call_args.parent_qname \o Dot \o node.name}

\* the class declarations of the body extract was applied to
ClassDecls ==
    {call_args.nodes[k] : k \in {j \in 1..Len(call_args.nodes) :
                                    call_args.nodes[j].type = "ClassDef"}}

-----------------------------------------------------------------------------
(* C14 *)

\* C14: with include_constants enabled, extract returns without error, and
\* its constants are one ConstantRecord for every statement of the body that
\* is a plain or an annotated assignment to a single bare identifier whose
\* name passes the constant-visibility policy, and nothing else.
C14_ConstantOfEveryAssignment ==
    (Returned("extract") /\ call_args.config.include_constants) =>
        /\ ~call_ret.value.raised
        /\ Len(call_ret.value.consts)
              = Cardinality(AcceptedAt(call_args.nodes,
                                       call_args.config.constant_visibility))
        /\ NamesOf(call_ret.value.consts)
              = {AssignedName(call_args.nodes[k])[1] :
                    k \in AcceptedAt(call_args.nodes,
                                     call_args.config.constant_visibility)}

-----------------------------------------------------------------------------
(* C15 *)

\* C15: with constant_visibility = uppercase and include_constants enabled,
\* extracting a module never fails, a body with `MAX_SIZE = 10` yields a
\* ConstantRecord named MAX_SIZE, `max_size = 10` and `_MAX = 10` yield none,
\* and in general the names kept are exactly the public names that match
\* [A-Z0-9_]+.
C15_UppercasePolicy ==
    ( /\ Returned("extract")
      /\ call_args.config.include_constants
      /\ call_args.config.constant_visibility = "uppercase" )
    => /\ ~call_ret.value.raised
       /\ \A k \in 1..Len(call_args.nodes) :
             LET n == AssignedName(call_args.nodes[k])
             IN  n # <<>> =>
                    /\ n[1] = MAX_SIZE => n[1] \in NamesOf(call_ret.value.consts)
                    /\ n[1] \in {max_size, _MAX}
                          => n[1] \notin NamesOf(call_ret.value.consts)
                    /\ n[1] \in NamesOf(call_ret.value.consts)
                          <=> ( /\ MatchesUpperPattern(n[1])
                                /\ ContractVisibility(n[1]) = "public" )

-----------------------------------------------------------------------------
(* C16 *)

\* C16: every class declaration that passes the class visibility filter is in
\* the enums list and not in the classes list when include_enums is enabled
\* and one of its bases is named Enum, IntEnum, StrEnum, Flag or IntFlag (as
\* a simple name or as the trailing attribute), and is in the classes list
\* and not in the enums list otherwise.
C16_EnumOrClass ==
    Returned("extract") =>
        \A node \in ClassDecls :
            Vis(node.name, call_args.config) =>
                IF /\ call_args.config.include_enums
                   /\ \E b \in 1..Len(node.bases) :
                         \/ /\ node.bases[b].type = "Name"
                            /\ node.bases[b].id \in EnumNames
                         \/ /\ node.bases[b].type = "Attribute"
                            /\ node.bases[b].attr \in EnumNames
                THEN /\ RecordsOf(call_ret.value.enums, node) # {}
                     /\ RecordsOf(call_ret.value.clss, node) = {}
                ELSE /\ RecordsOf(call_ret.value.clss, node) # {}
                     /\ RecordsOf(call_ret.value.enums, node) = {}

-----------------------------------------------------------------------------
(* C17 *)

\* C17: the members of an EnumRecord are exactly the plain and the annotated
\* assignments directly inside the enum body whose target name does not start
\* with an underscore, in ascending order of name.
C17_EnumMembers ==
    (Returned("extract") /\ ~call_ret.value.raised) =>
        \A node \in ClassDecls :
            \A k \in RecordsOf(call_ret.value.enums, node) :
                LET members == call_ret.value.enums[k].members
                IN  /\ NamesOf(members)
                          = {AssignedName(node.body[i])[1] :
                                i \in {j \in 1..Len(node.body) :
                                          /\ AssignedName(node.body[j]) # <<>>
                                          /\ AssignedName(node.body[j])[1][1] # "_"}}
                    /\ \A i \in 1..(Len(members) - 1) :
                          StrLess(members[i].name, members[i + 1].name)

-----------------------------------------------------------------------------
(* C18 *)

\* the class body declares a method named __init__
DeclaresInit(node) ==
    \E i \in 1..Len(node.body) :
        node.body[i].type \in {"FunctionDef", "AsyncFunctionDef"}
        /\ node.body[i].name = InitName

\* C18: in every ClassRecord that _class produces, a method named __init__
\* declared in the class body is in the method list, and every method named
\* __init__ has kind "instance", whatever its decorators and whether or not
\* public_only is enabled.
C18_InitAlwaysInstance ==
    (Returned("extract") /\ ~call_ret.value.raised) =>
        \A node \in ClassDecls :
            \A k \in RecordsOf(call_ret.value.clss, node) :
                LET methods == call_ret.value.clss[k].methods
                IN  /\ DeclaresInit(node) => InitName \in NamesOf(methods)
                    /\ \A m \in 1..Len(methods) :
                          methods[m].name = InitName => methods[m].kind = "instance"

\* under public_only, the record of a class whose __init__ is decorated with
\* staticmethod
C18_Witness ==
    /\ Returned("extract")
    /\ call_args.config.public_only
    /\ \E k \in 1..Len(call_ret.value.clss) :
          \E m \in 1..Len(call_ret.value.clss[k].methods) :
              /\ call_ret.value.clss[k].methods[m].name = InitName
              /\ call_ret.value.clss[k].methods[m].decorators = <<StaticmethodStr>>
              /\ call_ret.value.clss[k].methods[m].kind = "instance"

-----------------------------------------------------------------------------
(* C19 *)

\* the name of a decorator: a call is reduced to its callee
DecoratorName(deco) ==
    UnparseNode(IF deco.type = "Call" THEN deco.func ELSE deco)

\* the positions of the decorators whose name ends in staticmethod or in
\* classmethod
MatchingAt(decos) ==
    {i \in 1..Len(decos) :
        \/ EndsWith(DecoratorName(decos[i]), StaticmethodStr)
        \/ EndsWith(DecoratorName(decos[i]), ClassmethodStr)}

\* the largest element of a non-empty set of numbers
Last(S) == CHOOSE i \in S : \A j \in S : j <= i

\* C19 as stated: the kind is static whenever some decorator name ends in
\* staticmethod, class whenever some decorator name ends in classmethod and
\* instance when none matches, and it is the same for every list of the same
\* decorators in another order.
C19_KindOfDecoratorSet ==
    Returned("get_decorator_kind") =>
        LET decos == call_args.decorators
            kind == call_ret.value.kind
        IN  /\ (\E i \in 1..Len(decos) :
                   EndsWith(DecoratorName(decos[i]), StaticmethodStr))
                  => kind = "static"
            /\ (\E i \in 1..Len(decos) :
                   EndsWith(DecoratorName(decos[i]), ClassmethodStr))
                  => kind = "class"
            /\ MatchingAt(decos) = {} => kind = "instance"
            /\ \A other \in DecoratorLists :
                  {other[i] : i \in 1..Len(other)} = {decos[i] : i \in 1..Len(decos)}
                     => GetDecoratorKind(other).kind = kind

\* C19 amended: the kind is instance when no decorator name ends in
\* staticmethod or classmethod; otherwise the last such decorator in the
\* order of the list decides: static when its name ends in staticmethod,
\* class when it ends in classmethod.
C19_LastMatchDecides ==
    Returned("get_decorator_kind") =>
        LET decos == call_args.decorators
            kind == call_ret.value.kind
        IN  IF MatchingAt(decos) = {} THEN kind = "instance"
            ELSE IF EndsWith(DecoratorName(decos[Last(MatchingAt(decos))]),
                             StaticmethodStr)
            THEN kind = "static"
            ELSE kind = "class"

\* a staticmethod decorator listed before a classmethod decorator
C19_Witness ==
    /\ Returned("get_decorator_kind")
    /\ \E i, j \in 1..Len(call_args.decorators) :
          /\ i < j
          /\ EndsWith(DecoratorName(call_args.decorators[i]), StaticmethodStr)
          /\ EndsWith(DecoratorName(call_args.decorators[j]), ClassmethodStr)
    /\ call_ret.value.kind = "class"

-----------------------------------------------------------------------------
(* C20 *)

\* C20: get_visibility gives every identifier exactly one of dunder, private
\* and public: dunder to a name longer than 4 characters that starts and ends
\* with a double underscore, private to any other name that starts with an
\* underscore, public to every other name.
C20_VisibilityClassification ==
    Returned("get_visibility") =>
        /\ call_ret.value \in {"dunder", "private", "public"}
        /\ call_ret.value = ContractVisibility(call_args.name)

\* the name of four underscores is private
C20_Witness ==
    /\ Returned("get_visibility")
    /\ call_args.name = <<"_", "_", "_", "_">>
    /\ call_ret.value = "private"

-----------------------------------------------------------------------------
(* C21 *)

\* the number of entries of the list under key, over the module records mods
RECURSIVE ListedIn(_, _)
ListedIn(mods, key) ==
    IF mods = <<>> THEN 0
    ELSE Len(Head(mods).content[key]) + ListedIn(Tail(mods), key)

\* the number of entries of the list under key of the class records of mods
RECURSIVE ListedInClasses(_, _)
ListedInClasses(mods, key) ==
    IF mods = <<>> THEN 0
    ELSE SumOver(Head(mods).content.classes, key) + ListedInClasses(Tail(mods), key)

\* C21: in every returned report the counters classes, methods, enums,
\* functions and constants (module scope plus class scope) of the stats are
\* the totals over the module records of the report's package tree, and
\* files_parsed_ok is the number of those module records.
C21_StatsMatchTree ==
    report.made =>
        LET ms == AllModules(report.packages)
        IN  /\ report.stats.classes = ListedIn(ms, "classes")
            /\ report.stats.methods = ListedInClasses(ms, "methods")
            /\ report.stats.enums = ListedIn(ms, "enums")
            /\ report.stats.functions = ListedIn(ms, "functions")
            /\ report.stats.constants =
                   ListedIn(ms, "constants") + ListedInClasses(ms, "constants")
            /\ report.stats.files_parsed_ok = Len(ms)

\* a returned report with a constant at module scope and one at class scope,
\* methods, an enum and a function, next to a file that failed
C21_Witness ==
    /\ report.made
    /\ report.stats.files_parse_errors >= 1
    /\ ListedIn(AllModules(report.packages), "constants") >= 1
    /\ ListedInClasses(AllModules(report.packages), "constants") >= 1
    /\ report.stats.methods >= 2
    /\ report.stats.enums >= 1
    /\ report.stats.functions >= 1

-----------------------------------------------------------------------------
(* C22 *)

\* C22: no step of a run (collection of the files, building of the tree,
\* parse tasks, collection of the results, merge, assembly of the report)
\* changes the files under the root: the set of files and what reading each
\* of them gives are the same after every step, in runs that return a report
\* and in runs that fail.
C22_AnalyzedFilesUnchanged ==
    [][tree' = tree /\ outcome' = outcome]_vars

\* a run over three files has returned its report, one file having failed
C22_Witness ==
    /\ report.made
    /\ Cardinality(tree) = 3
    /\ report.stats.files_parsed_ok >= 1
    /\ report.stats.files_parse_errors >= 1

-----------------------------------------------------------------------------
(* C25 *)

\* the files whose parse task returned a module record
ParsedOk ==
    {futures[i].file : i \in {k \in DOMAIN futures :
                                 /\ futures[k].state = "returned"
                                 /\ futures[k].result.kind = "dict"}}

\* the positions <<i, k>> of the module records of a package list
PositionsOf(pkgs) ==
    {<<i, k>> \in (1..Len(pkgs)) \X (1..MaxFiles + 1) : k <= Len(pkgs[i].modules)}

\* C25: in the returned report every file that parsed successfully has
\* exactly one module record, that record is in the package whose path is the
\* path of the file's parent directory, every record carries the path and the
\* qname of a skeleton of the package it is in, and no record is listed at two
\* positions of the tree.
C25_OneRecordPerParsedFile ==
    report.made =>
        LET pk == report.packages
            at(pos) == pk[pos[1]].modules[pos[2]]
        IN  /\ \A f \in ParsedOk :
                  /\ Cardinality({pos \in PositionsOf(pk) :
                                     at(pos).path = NormalizeRel(f, config)}) = 1
                  /\ \A pos \in PositionsOf(pk) :
                        at(pos).path = NormalizeRel(f, config)
                        => pk[pos[1]].path = NormalizeRel(Parent(f), config)
            /\ \A pos \in PositionsOf(pk) :
                  \E k \in 1..Len(SkeletonTree[pos[1]].modules) :
                      /\ SkeletonTree[pos[1]].modules[k].path = at(pos).path
                      /\ SkeletonTree[pos[1]].modules[k].qname = at(pos).qname
            /\ \A pos \in PositionsOf(pk) : \A other \in PositionsOf(pk) :
                  at(pos) = at(other) => pos = other

-----------------------------------------------------------------------------
(* C26 *)

\* the number of skeletons the merge loop has gone through
SkeletonsMerged ==
    IF report.made \/ pc \in {"returned", "exited"}
    THEN Len(AllModules(SkeletonTree))
    ELSE IF pc = "merging" THEN CurrentFuture - 1
    ELSE 0

\* C26: once the tree is built stats.modules is the number of module skeletons;
\* at every point of the merge files_parsed_ok + files_parse_errors is the
\* number of skeletons gone through so far (each counts once, as ok or as
\* error), so the sum never exceeds stats.modules, and in the returned report
\* files_parsed_ok + files_parse_errors = stats.modules.
C26_EverySkeletonCountedOnce ==
    /\ scanned =>
          /\ stats.modules = Len(AllModules(SkeletonTree))
          /\ stats.files_parsed_ok + stats.files_parse_errors = SkeletonsMerged
          /\ stats.files_parsed_ok + stats.files_parse_errors <= stats.modules
    /\ report.made =>
          /\ report.stats.modules = Len(AllModules(SkeletonTree))
          /\ report.stats.files_parsed_ok + report.stats.files_parse_errors
                = report.stats.modules

\* a returned report of three skeletons, counted as ok and as error
C26_Witness ==
    /\ report.made
    /\ report.stats.modules = 3
    /\ report.stats.files_parsed_ok >= 1
    /\ report.stats.files_parse_errors >= 1

-----------------------------------------------------------------------------
(* C27 *)

\* every parse task that is submitted eventually returns or raises
EveryTaskCompletes ==
    \A i \in 1..(MaxFiles + 1) :
        [](i \in DOMAIN futures =>
               <>(i \in DOMAIN futures /\ futures[i].state # "pending"))

\* C27: provided every parse task eventually returns or raises, a run that
\* has constructed its service eventually returns a report; one task is
\* submitted per module skeleton, in the order of the skeletons; a step of the
\* result collection consumes the outcome of one completed task that was
\* submitted and not consumed before, and no outcome is consumed twice.
C27_RunReturns ==
    /\ [](pc \in {"collecting", "merging"} =>
             /\ Len(futures) = Len(AllModules(SkeletonTree))
             /\ \A i \in DOMAIN futures :
                   futures[i].qname = AllModules(SkeletonTree)[i].qname
             /\ collected \subseteq DOMAIN futures)
    /\ [][collected' # collected =>
             \E i \in DOMAIN futures \ collected :
                 /\ futures[i].state # "pending"
                 /\ collected' = collected \cup {i}]_vars
    /\ EveryTaskCompletes => ((pc = "constructed") ~> report.made)

-----------------------------------------------------------------------------
(* C28 *)

\* the records of a sequence that carry a docstring
Documenting(recs) == {k \in 1..Len(recs) : recs[k].docstring # <<>>}

\* no record of a package list carries a docstring
NoDocstringIn(pkgs) ==
    \A k \in 1..Len(AllModules(pkgs)) :
        LET m == AllModules(pkgs)[k]
        IN  /\ m.content.docstring = <<>>
            /\ Documenting(m.content.functions) = {}
            /\ Documenting(m.content.enums) = {}
            /\ Documenting(m.content.classes) = {}
            /\ \A c \in 1..Len(m.content.classes) :
                  Documenting(m.content.classes[c].methods) = {}

\* C28: when include_docstrings is disabled no record of the returned report
\* carries a docstring: no module record and no class, enum, function or
\* method record.
C28_NoDocstringWhenDisabled ==
    (report.made /\ ~config.include_docstrings) => NoDocstringIn(report.packages)

-----------------------------------------------------------------------------
(* C29 *)

\* the module record parse_file builds from the lists extract returned
RecordOfCall ==
    ModuleRecord(<<>>, call_args.parent_qname,
                 Pruned(call_ret.value, call_args.config))

\* C29: for each of include_constants, include_enums and include_functions:
\* when the toggle is disabled the module record built from the result of
\* extract does not carry the field (for constants, no class record carries
\* it either) and counting the record leaves the counter at 0; with
\* include_enums disabled every enum-shaped class that passes the visibility
\* filter is in the classes list.
C29_DisabledToggles ==
    Returned("extract") =>
        LET cfg == call_args.config
            v == call_ret.value
            st == UpdateStats(NoStats, RecordOfCall)
        IN  /\ ~cfg.include_constants =>
                  /\ ~RecordOfCall.content.has_constants
                  /\ \A k \in 1..Len(v.clss) : ~v.clss[k].has_constants
                  /\ st.constants = 0
            /\ ~cfg.include_functions =>
                  /\ ~RecordOfCall.content.has_functions
                  /\ st.functions = 0
            /\ ~cfg.include_enums =>
                  /\ ~RecordOfCall.content.has_enums
                  /\ st.enums = 0
                  /\ \A node \in ClassDecls :
                        (Vis(node.name, cfg) /\ IsEnum(node))
                        => RecordsOf(v.clss, node) # {}

-----------------------------------------------------------------------------
(* C30 *)

\* C30: the signature _sig builds has one parameter record per declared
\* parameter, in the order of the declaration; the record of a parameter
\* carries a default text if and only if the parameter is declared with a
\* default, whatever its kind (positional-only, positional-or-keyword,
\* keyword-only), and the text is that of the parameter's own default.
C30_DefaultOfEveryParameter ==
    Returned("_sig") =>
        LET d == call_args.declared
            ps == call_ret.value.params
        IN  /\ Len(ps) = Len(d)
            /\ \A k \in 1..Len(d) :
                  /\ ps[k].name = <<LowerLetters[k]>>
                  /\ ps[k].kind = ParamKinds[d[k].kind]
                  /\ (ps[k].default # PyNone) <=> d[k].has_default
                  /\ d[k].has_default => ps[k].default = IntStr(k)

-----------------------------------------------------------------------------
(* PathHeaderAnnotator (path_annotate.py): the header of each file under a  *)
(* root.  A file's content is the sequence of its characters; tree maps     *)
(* each file of the root to its content, config holds the signatures, the   *)
(* global exclude patterns and dry_run, call_args counts the runs over the  *)
(* root and call_ret keeps the report of the run before.                    *)

\* files under the root of an annotated tree, and runs over it
MaxAnnotated == 2
MaxRuns == 2

\* a byte that is not valid UTF-8 (latin-1 decodes it), and a character that
\* latin-1 cannot encode
ByteFF == "\\xff"
LStroke == "\\u0142"

\* str.splitlines() for the line boundaries \n, \r and \r\n
RECURSIVE SplitLines(_, _)
SplitLines(s, cur) ==
    IF s = <<>> THEN (IF cur = <<>> THEN <<>> ELSE <<cur>>)
    ELSE IF Len(s) >= 2 /\ s[1] = "\r" /\ s[2] = "\n"
         THEN <<cur>> \o SplitLines(SubSeq(s, 3, Len(s)), <<>>)
    ELSE IF Head(s) \in {"\n", "\r"}
         THEN <<cur>> \o SplitLines(Tail(s), <<>>)
    ELSE SplitLines(Tail(s), Append(cur, Head(s)))

\* sep.join(lines)
RECURSIVE Join(_, _)
Join(lines, sep) ==
    IF lines = <<>> THEN <<>>
    ELSE IF Len(lines) = 1 THEN lines[1]
    ELSE lines[1] \o sep \o Join(Tail(lines), sep)

\* _read_file_content: _detect_encoding gives utf-8 when the bytes decode as
\* utf-8, else latin-1; open(newline='') keeps the line ends; f.newlines is
\* None, one line end, or the tuple of those seen in the order \r, \n, \r\n,
\* whose first member is taken; os.linesep is \n
ReadFileContent(content) ==
    LET n == Len(content)
        cr == \E i \in 1..n : content[i] = "\r" /\ (i = n \/ content[i + 1] # "\n")
        lf == \E i \in 1..n : content[i] = "\n" /\ (i = 1 \/ content[i - 1] # "\r")
        crlf == \E i \in 1..(n - 1) : content[i] = "\r" /\ content[i + 1] = "\n"
    IN  [encoding |-> IF \E i \in 1..n : content[i] = ByteFF
                      THEN <<"l", "a", "t", "i", "n", "-", "1">>
                      ELSE <<"u", "t", "f", "-", "8">>,
         newline_char |-> IF cr THEN <<"\r">>
                          ELSE IF lf THEN <<"\n">>
                          ELSE IF crlf THEN <<"\r", "\n">>
                          ELSE <<"\n">>,
         lines |-> SplitLines(content, <<>>)]

\* _find_first_nonblank
FindFirstNonblank(lines) ==
    LET nonblank == {i \in 1..Len(lines) : Strip(lines[i]) # <<>>}
    IN  IF nonblank = {} THEN [line |-> PyNone, idx |-> 0]
        ELSE LET i == CHOOSE k \in nonblank : \A j \in nonblank : k <= j
             IN  [line |-> lines[i], idx |-> i - 1]

\* sig.detection_pattern.match(line) for the pattern Signature.from_dict
\* compiles: ^<prefix>\s+\S+<suffix>$ with prefix and suffix escaped
DetectionPatternMatch(sig, line) ==
    /\ Len(line) >= Len(sig.comment_prefix) + Len(sig.required_suffix)
    /\ StartsWith(line, sig.comment_prefix)
    /\ EndsWith(line, sig.required_suffix)
    /\ LET mid == SubSeq(line, Len(sig.comment_prefix) + 1,
                         Len(line) - Len(sig.required_suffix))
       IN  \E k \in 1..(Len(mid) - 1) :
              /\ \A j \in 1..k : mid[j] \in WhiteSpace
              /\ \A j \in (k + 1)..Len(mid) : mid[j] \notin WhiteSpace

\* _decide_header_action
DecideHeaderAction(first_nonblank_line, first_nonblank_idx, sig, canonical_header) ==
    IF first_nonblank_line = PyNone
    THEN [action |-> "insert", text |-> canonical_header, line_index |-> 0,
          existing_line_count |-> 0]
    ELSE IF DetectionPatternMatch(sig, first_nonblank_line)
    THEN [action |-> IF first_nonblank_line = canonical_header THEN "skip"
                     ELSE "update",
          text |-> canonical_header, line_index |-> first_nonblank_idx,
          existing_line_count |-> 1]
    ELSE [action |-> "insert", text |-> canonical_header,
          line_index |-> first_nonblank_idx, existing_line_count |-> 0]

\* fnmatch.fnmatch(s, pat) for patterns of literal characters and *
RECURSIVE FnMatch(_, _)
FnMatch(s, pat) ==
    IF pat = <<>> THEN s = <<>>
    ELSE IF Head(pat) = "*"
         THEN FnMatch(s, Tail(pat)) \/ (s # <<>> /\ FnMatch(Tail(s), pat))
    ELSE s # <<>> /\ Head(s) = Head(pat) /\ FnMatch(Tail(s), Tail(pat))

\* _matches_signature
MatchesSignature(relpath, sig) ==
    /\ EndsWith(relpath, sig.required_suffix)
    /\ sig.extensions # <<>> =>
          \E k \in 1..Len(sig.extensions) : EndsWith(relpath, sig.extensions[k])
    /\ sig.globs # <<>> =>
          \E k \in 1..Len(sig.globs) : FnMatch(relpath, sig.globs[k])

\* _write_file_content: the new text of the file.  write_text opens the file
\* for writing, which empties it, translates every \n of the text to the
\* newline given, and raises when the encoding has no code for a character
WriteFileContent(lines, decision, encoding, newline_char) ==
    LET at == decision.line_index
        new_lines == IF decision.action = "insert"
                     THEN SubSeq(lines, 1, at) \o <<decision.text>>
                          \o SubSeq(lines, at + 1, Len(lines))
                     ELSE [lines EXCEPT ![at + 1] = decision.text]
        text == Join(new_lines, newline_char) \o newline_char
        translated == IF newline_char = <<"\n">> THEN text
                      ELSE Replace(text, <<"\n">>, newline_char)
    IN  IF /\ encoding = <<"l", "a", "t", "i", "n", "-", "1">>
           /\ \E i \in 1..Len(translated) : translated[i] = LStroke
        THEN [raised |-> TRUE, content |-> <<>>]
        ELSE [raised |-> FALSE, content |-> translated]

\* process_file: the outcome reported for the file and the content it leaves
ProcessFile(file_path, content, cfg) ==
    LET relpath == AsPosix(file_path)
        FileOutcome(path, action, signature_name, reason) ==
            [path |-> path, action |-> action,
             signature_name |-> signature_name, reason |-> reason]
        matching == {k \in 1..Len(cfg.signatures) :
                        MatchesSignature(relpath, cfg.signatures[k])}
        matched_sig == cfg.signatures[CHOOSE k \in matching :
                                          \A j \in matching : k <= j]
        read == ReadFileContent(content)
        first == FindFirstNonblank(read.lines)
        canonical_header == matched_sig.comment_prefix \o <<" ">> \o relpath
        decision == DecideHeaderAction(first.line, first.idx, matched_sig,
                                       canonical_header)
        outcome_action == IF decision.action = "insert" THEN "inserted"
                          ELSE "updated"
        wrote == WriteFileContent(read.lines, decision, read.encoding,
                                  read.newline_char)
    IN  IF cfg.excludes # <<>> /\ MatchFile(cfg.excludes, relpath)
        THEN [outcome |-> FileOutcome(relpath, "skipped_excluded", PyNone,
                                      "Global exclude"),
              content |-> content]
        ELSE IF matching = {}
        THEN [outcome |-> FileOutcome(relpath, "skipped_no_match", PyNone, "None"),
              content |-> content]
        ELSE IF matched_sig.exclude # <<>> /\ MatchFile(matched_sig.exclude, relpath)
        THEN [outcome |-> FileOutcome(relpath, "skipped_excluded",
                                      matched_sig.name, "Signature exclude"),
              content |-> content]
        ELSE IF decision.action = "skip"
        THEN [outcome |-> FileOutcome(relpath, "skipped_correct",
                                      matched_sig.name, "None"),
              content |-> content]
        ELSE IF cfg.dry_run
        THEN [outcome |-> FileOutcome(relpath, outcome_action, matched_sig.name,
                                      "Dry run"),
              content |-> content]
        ELSE IF wrote.raised
        THEN [outcome |-> FileOutcome(relpath, "error", matched_sig.name,
                                      "UnicodeEncodeError"),
              content |-> wrote.content]
        ELSE [outcome |-> FileOutcome(relpath, outcome_action, matched_sig.name,
                                      "None"),
              content |-> wrote.content]

\* the ways the annotator is configured in the model; PySig asks for the
\* header # <relpath> in the files ending in .py
AnnotatorConfigs ==
    LET PySig == [name |-> <<"p", "y">>, comment_prefix |-> <<"#">>,
                  required_suffix |-> DotPy, extensions |-> <<>>,
                  globs |-> <<>>, exclude |-> <<>>]
        only(sig) == [signatures |-> <<sig>>, excludes |-> <<>>, dry_run |-> FALSE]
        base == only(PySig)
        sub == [PySig EXCEPT !.name = <<"d">>, !.comment_prefix = <<"/", "/">>,
                             !.globs = << <<"d", "/", "*">> >>]
        any == [PySig EXCEPT !.name = <<"t">>, !.required_suffix = <<>>,
                             !.extensions = <<DotPy, <<".", "t", "x", "t">> >>]
        cfgs == {base,
                 [base EXCEPT !.signatures = <<sub, PySig>>],
                 only([PySig EXCEPT !.exclude = << <<"d", "/">> >>]),
                 [base EXCEPT !.excludes = << <<"d", "/">> >>],
                 only(any)}
    IN  {[c EXCEPT !.dry_run = d] : c \in cfgs, d \in BOOLEAN}

\* the roots of the model: at most MaxAnnotated of the files of Universe,
\* each starting with one of: nothing, code only, blank lines before the
\* code, a stale header, its own header, CRLF line ends, bytes that are not
\* UTF-8
AnnotatedTrees ==
    LET Universe ==
            { <<APy>>, << <<"d">>, APy >>, << <<"m", " ", "f", ".", "p", "y">> >>,
              << <<LStroke, ".", "p", "y">> >>, << DotPy >>,
              << <<"n", ".", "t", "x", "t">> >> }
        ContentsOf(f) ==
            { <<>>,
              <<"x", "\n">>,
              <<"\n", " ", "\n", "x">>,
              <<"#", " ", "o", ".", "p", "y", "\n", "x", "\n">>,
              <<"#", " ">> \o AsPosix(f) \o <<"\n", "x", "\n">>,
              <<"x", "\r", "\n", "y", "\r", "\n">>,
              <<ByteFF, "\n">> }
    IN  UNION {{t \in [T -> UNION {ContentsOf(f) : f \in T}] :
                    \A f \in T : t[f] \in ContentsOf(f)} :
               T \in {S \in SUBSET Universe : Cardinality(S) <= MaxAnnotated}}

\* RunReport()
NewRunReport ==
    [made |-> FALSE, files_scanned |-> 0, files_inserted |-> 0,
     files_updated |-> 0, files_skipped_correct |-> 0,
     files_skipped_no_match |-> 0, files_skipped_excluded |-> 0,
     files_with_errors |-> 0, outcomes |-> <<>>]

\* RunReport.tally
Tally(rep, o) ==
    [rep EXCEPT
        !.files_scanned = @ + 1,
        !.files_inserted = IF o.action = "inserted" THEN @ + 1 ELSE @,
        !.files_updated = IF o.action = "updated" THEN @ + 1 ELSE @,
        !.files_skipped_correct = IF o.action = "skipped_correct" THEN @ + 1 ELSE @,
        !.files_skipped_no_match = IF o.action = "skipped_no_match" THEN @ + 1 ELSE @,
        !.files_skipped_excluded = IF o.action = "skipped_excluded" THEN @ + 1 ELSE @,
        !.files_with_errors = IF o.action = "error" THEN @ + 1 ELSE @,
        !.outcomes = Append(@, o)]

\* report.outcomes.sort(key=lambda o: o.path)
RECURSIVE SortedOutcomes(_)
SortedOutcomes(os) ==
    IF os = <<>> THEN <<>>
    ELSE LET rest == SortedOutcomes(SubSeq(os, 1, Len(os) - 1))
             o == os[Len(os)]
             before == SelectSeq(rest, LAMBDA r : ~StrLess(o.path, r.path))
             after == SelectSeq(rest, LAMBDA r : StrLess(o.path, r.path))
         IN  before \o <<o>> \o after

\* PathHeaderAnnotator(root, config, ..., dry_run) over a root that is a
\* directory, before its first run()
AnnotateInit ==
    /\ caller = "api"
    /\ root_kind = "dir"
    /\ cfg_load = "ok"
    /\ config \in AnnotatorConfigs
    /\ tree \in AnnotatedTrees
    /\ outcome = <<>>
    /\ pc = "start"
    /\ scanned = FALSE
    /\ files = <<>>
    /\ packages = <<>>
    /\ stats = NoStats
    /\ futures = <<>>
    /\ collected = {}
    /\ parsed_results = <<>>
    /\ pkg_i = 0
    /\ skel_j = 0
    /\ processed_mods = <<>>
    /\ report = NewRunReport
    /\ written = FALSE
    /\ exit_code = NoExit
    /\ broken = FALSE
    /\ manager = "running"
    /\ iter_count = 0
    /\ cli_args = "parsed"
    /\ call = "run"
    /\ call_args = [run |-> 1]
    /\ call_ret = NotReturned

\* run(), lines 392-417.  The first step collects and sorts the regular files
\* under the root; each further step is one executor.submit of process_file,
\* for the next file of the list, while the pool threads already run the
\* tasks submitted before; after the last submit the as_completed loop begins
RunSubmit ==
    /\ call = "run"
    /\ \/ /\ pc = "start"
          /\ scanned' = TRUE
          /\ files' = SortedPaths(DOMAIN tree)
          /\ futures' = <<>>
          /\ report' = NewRunReport
          /\ pc' = IF files' = <<>> THEN "running" ELSE "submitting"
       \/ /\ pc = "submitting"
          /\ futures' = Append(futures, [file |-> files[Len(futures) + 1],
                                         state |-> "pending"])
          /\ pc' = IF Len(futures') = Len(files) THEN "running" ELSE "submitting"
          /\ UNCHANGED <<scanned, files, report>>
    /\ UNCHANGED <<broken, manager, iter_count, cli_args, caller, root_kind, cfg_load, config, tree, outcome, packages,
                   stats, collected, parsed_results, pkg_i, skel_j,
                   processed_mods, written, exit_code, call, call_args, call_ret>>

\* the task of future i in a pool thread, step by step (no other task reads
\* or writes its file).  The thread takes the task: the future is running.
\* process_file reads the file and decides; when it has to write, write_text
\* opens the file, which empties it, and then writes the new text (or raises,
\* and the file stays empty).  process_file returns its outcome, and at last
\* the thread sets it as the result of the future
ProcessFileTask(i) ==
    /\ call = "run"
    /\ pc \in {"submitting", "running"}
    /\ i \in 1..Len(futures)
    /\ \/ /\ futures[i].state = "pending"
          /\ futures' = [futures EXCEPT ![i] = [file |-> @.file, state |-> "running",
                                                at |-> "taken"]]
          /\ UNCHANGED tree
       \/ /\ futures[i].state = "running"
          /\ futures[i].at = "taken"
          /\ LET f == futures[i].file
                 done == ProcessFile(f, tree[f], config)
                 writes == /\ ~config.dry_run
                           /\ done.outcome.action \in {"inserted", "updated", "error"}
             IN  /\ futures' = [futures EXCEPT ![i] =
                                   [file |-> f, state |-> "running",
                                    at |-> IF writes THEN "opened" ELSE "returned",
                                    result |-> done.outcome,
                                    content |-> done.content]]
                 /\ tree' = IF writes THEN [tree EXCEPT ![f] = <<>>] ELSE tree
       \/ /\ futures[i].state = "running"
          /\ futures[i].at = "opened"
          /\ futures' = [futures EXCEPT ![i].at = "returned"]
          /\ tree' = [tree EXCEPT ![futures[i].file] = futures[i].content]
       \/ /\ futures[i].state = "running"
          /\ futures[i].at = "returned"
          /\ futures' = [futures EXCEPT ![i] = [file |-> @.file, state |-> "done",
                                                result |-> @.result]]
          /\ UNCHANGED tree
    /\ UNCHANGED <<broken, manager, iter_count, cli_args, caller, root_kind, cfg_load, config, outcome, pc, scanned, files,
                   packages, stats, collected, parsed_results, pkg_i, skel_j,
                   processed_mods, report, written, exit_code, call, call_args,
                   call_ret>>

\* as_completed yields future i: its outcome is tallied
TallyFuture(i) ==
    /\ call = "run"
    /\ pc = "running"
    /\ i \in 1..Len(futures)
    /\ futures[i].state = "done"
    /\ i \notin collected
    /\ collected' = collected \cup {i}
    /\ report' = Tally(report, futures[i].result)
    /\ UNCHANGED <<broken, manager, iter_count, cli_args, caller, root_kind, cfg_load, config, tree, outcome, pc, scanned,
                   files, packages, stats, futures, parsed_results, pkg_i, skel_j,
                   processed_mods, written, exit_code, call, call_args, call_ret>>

\* run(), lines 435-437: the outcomes are sorted by path and the report returned
RunReturn ==
    /\ call = "run"
    /\ pc = "running"
    /\ collected = 1..Len(futures)
    /\ report' = [report EXCEPT !.made = TRUE, !.outcomes = SortedOutcomes(@)]
    /\ pc' = "returned"
    /\ UNCHANGED <<broken, manager, iter_count, cli_args, caller, root_kind, cfg_load, config, tree, outcome, scanned,
                   files, packages, stats, futures, collected, parsed_results,
                   pkg_i, skel_j, processed_mods, written, exit_code, call,
                   call_args, call_ret>>

\* a further annotator is constructed over the same root, dry or not, with
\* the same signatures; nothing else touches the tree in between
RunAgain ==
    /\ call = "run"
    /\ pc = "returned"
    /\ call_args.run < MaxRuns
    /\ call_args' = [run |-> call_args.run + 1]
    /\ call_ret' = [returned |-> TRUE, value |-> report, dry_run |-> config.dry_run]
    /\ \E d \in BOOLEAN : config' = [config EXCEPT !.dry_run = d]
    /\ pc' = "start"
    /\ scanned' = FALSE
    /\ files' = <<>>
    /\ futures' = <<>>
    /\ collected' = {}
    /\ report' = NewRunReport
    /\ UNCHANGED <<broken, manager, iter_count, cli_args, caller, root_kind, cfg_load, tree, outcome, packages, stats,
                   parsed_results, pkg_i, skel_j, processed_mods, written,
                   exit_code, call>>

AnnotateNext ==
    \/ RunSubmit
    \/ \E i \in 1..MaxAnnotated : ProcessFileTask(i)
    \/ \E i \in 1..MaxAnnotated : TallyFuture(i)
    \/ RunReturn
    \/ RunAgain

SpecAnnotate == AnnotateInit /\ [][AnnotateNext]_vars

-----------------------------------------------------------------------------
(* C23: the annotator is idempotent *)

\* the outcome a report holds for a path
OutcomeFor(rep, path) ==
    LET at == {k \in 1..Len(rep.outcomes) : rep.outcomes[k].path = path}
    IN  rep.outcomes[CHOOSE k \in at : TRUE]

\* the files whose header the run before, not a dry one, inserted or updated
ChangedBefore ==
    IF call_ret.returned /\ ~call_ret.dry_run
    THEN {f \in DOMAIN tree :
             OutcomeFor(call_ret.value, AsPosix(f)).action \in {"inserted", "updated"}}
    ELSE {}

\* the lines of f that are the header of f for the signature named
HeaderLines(f, signature_name) ==
    LET at == {k \in 1..Len(config.signatures) :
                  config.signatures[k].name = signature_name}
        sig == config.signatures[CHOOSE k \in at : TRUE]
        lines == SplitLines(tree[f], <<>>)
    IN  {i \in 1..Len(lines) : lines[i] = sig.comment_prefix \o <<" ">> \o AsPosix(f)}

\* C23: for every file whose header a non-dry run inserted or updated, the
\* next run over the tree does not change the file's content, reports the
\* file as skipped_correct, and leaves at most one header line in it
C23_SecondRunSkipsCorrect ==
    /\ [][\A f \in ChangedBefore : tree'[f] = tree[f]]_vars
    /\ [](report.made =>
            \A f \in ChangedBefore :
                /\ OutcomeFor(report, AsPosix(f)).action = "skipped_correct"
                /\ Cardinality(HeaderLines(f,
                       OutcomeFor(report, AsPosix(f)).signature_name)) <= 1)

-----------------------------------------------------------------------------
(* C24: a dry run writes nothing and reports what a real run would *)

\* what a run that is not dry reports for file f of the tree as it is
NonDryOutcome(f) ==
    ProcessFile(f, tree[f], [config EXCEPT !.dry_run = FALSE]).outcome

\* C24: a run with dry_run enabled never changes the content of a file, and
\* the action it reports for each file is the action a run without dry_run
\* reports for that file on the same tree
C24_DryRunReportsTheSame ==
    /\ [][config.dry_run => tree' = tree]_vars
    /\ []((report.made /\ config.dry_run) =>
            \A f \in DOMAIN tree :
                OutcomeFor(report, AsPosix(f)).action = NonDryOutcome(f).action)

====
